---- MODULE Spec2Model ----
(***************************************************************************)
(* Sonyflake: the ID generator (New / NextID / NextReproducibleID), its    *)
(* lock-and-sleep clock compensation, and the codec (toID / Compose /      *)
(* Decompose / ToTime).                                                    *)
(*                                                                         *)
(* Times are integers in nanoseconds (time.Time.UnixNano); a generator's   *)
(* startTime and elapsedTime are in units of timeUnit nanoseconds.  The    *)
(* engine is explored on a scaled-down bit layout (ModelBitsTime,          *)
(* ModelBitsSequence, ModelBitsMachine in place of 39/8/16): TLC's         *)
(* integers are 32 bits wide, so the time limit 1<<39 cannot be reached    *)
(* with the real widths.  The codec is also evaluated on the default       *)
(* layout for identifiers below 2^31.                                      *)
(***************************************************************************)
EXTENDS Integers, Sequences, FiniteSets, TLC

(***************************************************************************)
(* Bounds of the exploration.                                              *)
(***************************************************************************)
ModelBitsTime == 2
ModelBitsSequence == 1
ModelBitsMachine == 1
ModelTimeUnit == 2
MaxCalls == 4
\* the width of an int64 on the scaled-down layouts (64 in the code)
ModelBitsInt == 6

Procs == {1, 2}
Gens == {1, 2}

(***************************************************************************)
(* Program constants.                                                      *)
(***************************************************************************)
defaultBitsTime == 39
defaultBitsSequence == 8
defaultBitsMachine == 16
defaultTimeUnit == 10000000

\* time.Millisecond, in nanoseconds
Millisecond == 1000000

ErrNone == "nil"
ErrInvalidBitsTime == "bit length for time must be 32 or more"
ErrInvalidBitsSequence == "invalid bit length for sequence number"
ErrInvalidBitsMachineID == "invalid bit length for machine id"
ErrInvalidTimeUnit == "invalid time unit"
ErrInvalidSequence == "invalid sequence number"
ErrInvalidMachineID == "invalid machine id"
ErrStartTimeAhead == "start time is ahead"
ErrOverTimeLimit == "over the time limit"
ErrNoPrivateAddress == "no private ip address"

(***************************************************************************)
(* Go integer arithmetic on the values the program handles.                *)
(***************************************************************************)
RECURSIVE Pow2(_)
Pow2(n) == IF n = 0 THEN 1 ELSE 2 * Pow2(n - 1)

\* x << n
Shl(x, n) == x * Pow2(n)

\* x >> n on a signed integer (arithmetic shift: rounds towards minus infinity)
RECURSIVE Shr(_, _)
Shr(x, n) == IF n = 0 THEN x ELSE Shr(x \div 2, n - 1)

\* a | b on non-negative integers, bit by bit
RECURSIVE BitOr(_, _)
BitOr(a, b) ==
    IF a = 0 THEN b
    ELSE IF b = 0 THEN a
    ELSE 2 * BitOr(a \div 2, b \div 2) + (IF a % 2 = 1 \/ b % 2 = 1 THEN 1 ELSE 0)

\* a & b on non-negative integers, bit by bit
RECURSIVE BitAnd(_, _)
BitAnd(a, b) ==
    IF a = 0 \/ b = 0 THEN 0
    ELSE 2 * BitAnd(a \div 2, b \div 2) + (IF a % 2 = 1 /\ b % 2 = 1 THEN 1 ELSE 0)

\* x >= 1<<n, evaluated without forming 1<<n (n may be 39)
GeShl1(x, n) == Shr(x, n) >= 1

\* Go's a / b for b > 0: truncates towards zero
Quot(a, b) == IF a >= 0 THEN a \div b ELSE -((-a) \div b)

\* Go's a % b for b > 0: the sign follows the dividend
Rem(a, b) == a - b * Quot(a, b)

(***************************************************************************)
(* The clock readings explored (nanoseconds), derived from the bounds:     *)
(* from before the epoch to the generator's time limit and beyond it.      *)
(***************************************************************************)
MinNow == -(ModelTimeUnit + 1)
MaxNow == (Pow2(ModelBitsTime) + 1) * ModelTimeUnit - 1
Clock == MinNow..MaxNow
MaxElapsedTime == Pow2(ModelBitsTime) + 1

VARIABLES
    sf,         \* sf[g]: the fields of generator g (type Sonyflake)
    mutex,      \* mutex[g]: 0 when unlocked, else the caller holding sf.mutex
    gen,        \* gen[p]: the generator caller p uses
    pc,         \* pc[p]: where caller p is in its call
    current,    \* current[p]: the call's local variable current, while it is live
    sleepLeft,  \* sleepLeft[p]: the duration of p's time.Sleep, in nanoseconds
    ret,        \* ret[p]: the (id, err) pair p's call returns
    calls,      \* the number of calls made so far
    watched,    \* a result handed to a caller earlier, kept by the observer
    codec,      \* the last Compose / Decompose / ToTime call and its result
    now,        \* the wall clock, in the specifications that keep one: its reading t
                \* (nanoseconds) and whether it has gone backwards since construction
    replay,     \* the timestamp supplied to the callers of NextReproducibleID in the
                \* current round, and the results of those that have returned in it
    tally,      \* a time value and the number of identifiers issued with that time part
    built       \* the last call of New and its result

vars == <<sf, mutex, gen, pc, current, sleepLeft, ret, calls, watched, codec,
          now, replay, tally, built>>

NoRet == [id |-> 0, err |-> ErrNone]
Nobody == [p |-> 0, id |-> 0, err |-> ErrNone]
NoCodec == [op |-> "none"]
NoReplay == [t |-> 0, callers |-> {}, out |-> <<>>]
NoTally == [time |-> -1, count |-> 0]
NoClock == [t |-> 0, back |-> FALSE]
NoBuilt == [op |-> "none"]

(***************************************************************************)
(* Sonyflake.toInternalTime and Sonyflake.currentElapsedTime               *)
(***************************************************************************)
toInternalTime(s, t) == Quot(t, s.timeUnit)

currentElapsedTime(s, t) == toInternalTime(s, t) - s.startTime

(***************************************************************************)
(* Faulty variants of toID, used to test what the properties depend on.    *)
(***************************************************************************)
\* the machine ID left out of the identifier
toIDNoMachine(s) ==
    IF GeShl1(s.elapsedTime, s.bitsTime)
    THEN [id |-> 0, err |-> ErrOverTimeLimit]
    ELSE [id |-> BitOr(Shl(s.elapsedTime, s.bitsSequence + s.bitsMachine),
                       Shl(s.sequence, s.bitsMachine)),
          err |-> ErrNone]

\* the limit tested with > in place of >=
toIDOffByOne(s) ==
    IF Shr(s.elapsedTime, s.bitsTime) >= 1 /\ s.elapsedTime # Shl(1, s.bitsTime)
    THEN [id |-> 0, err |-> ErrOverTimeLimit]
    ELSE [id |-> BitOr(BitOr(Shl(s.elapsedTime, s.bitsSequence + s.bitsMachine),
                             Shl(s.sequence, s.bitsMachine)),
                       s.machine),
          err |-> ErrNone]

\* the time limit not tested at all
toIDNoLimit(s) ==
    [id |-> BitOr(BitOr(Shl(s.elapsedTime, s.bitsSequence + s.bitsMachine),
                        Shl(s.sequence, s.bitsMachine)),
                  s.machine),
     err |-> ErrNone]

(***************************************************************************)
(* Sonyflake.toID                                                          *)
(***************************************************************************)
toID(s) ==
    IF GeShl1(s.elapsedTime, s.bitsTime)
    THEN [id |-> 0, err |-> ErrOverTimeLimit]
    ELSE [id |-> BitOr(BitOr(Shl(s.elapsedTime, s.bitsSequence + s.bitsMachine),
                             Shl(s.sequence, s.bitsMachine)),
                       s.machine),
          err |-> ErrNone]

(***************************************************************************)
(* The locked state transition of NextID, given the clock reading cur:     *)
(* the generator's fields after the if statement.                          *)
(***************************************************************************)
maskSequence(s) == Shl(1, s.bitsSequence) - 1

\* Faulty variants of nextState.
\* elapsedTime follows the clock whenever they differ, also backwards
nextStateFollowsClock(s, cur) ==
    IF s.elapsedTime # cur
    THEN [s EXCEPT !.elapsedTime = cur, !.sequence = 0]
    ELSE LET seq == BitAnd(s.sequence + 1, maskSequence(s))
         IN IF seq = 0
            THEN [s EXCEPT !.sequence = seq, !.elapsedTime = s.elapsedTime + 1]
            ELSE [s EXCEPT !.sequence = seq]

\* the sequence wraps to 0 without elapsedTime moving on
nextStateNoCarry(s, cur) ==
    IF s.elapsedTime < cur
    THEN [s EXCEPT !.elapsedTime = cur, !.sequence = 0]
    ELSE [s EXCEPT !.sequence = BitAnd(s.sequence + 1, maskSequence(s))]

\* on a wrap, elapsedTime is set from the clock reading instead of being incremented
nextStateCarryFromClock(s, cur) ==
    IF s.elapsedTime < cur
    THEN [s EXCEPT !.elapsedTime = cur, !.sequence = 0]
    ELSE LET seq == BitAnd(s.sequence + 1, maskSequence(s))
         IN IF seq = 0
            THEN [s EXCEPT !.sequence = seq, !.elapsedTime = cur + 1]
            ELSE [s EXCEPT !.sequence = seq]

\* on a wrap, elapsedTime skips a time unit
nextStateSkipsAhead(s, cur) ==
    IF s.elapsedTime < cur
    THEN [s EXCEPT !.elapsedTime = cur, !.sequence = 0]
    ELSE LET seq == BitAnd(s.sequence + 1, maskSequence(s))
         IN IF seq = 0
            THEN [s EXCEPT !.sequence = seq, !.elapsedTime = s.elapsedTime + 2]
            ELSE [s EXCEPT !.sequence = seq]

\* the incremented sequence number is not masked: it never wraps
nextStateNoMask(s, cur) ==
    IF s.elapsedTime < cur
    THEN [s EXCEPT !.elapsedTime = cur, !.sequence = 0]
    ELSE [s EXCEPT !.sequence = s.sequence + 1]

nextState(s, cur) ==
    IF s.elapsedTime < cur
    THEN [s EXCEPT !.elapsedTime = cur, !.sequence = 0]
    ELSE LET seq == BitAnd(s.sequence + 1, maskSequence(s))
         IN IF seq = 0
            THEN [s EXCEPT !.sequence = seq, !.elapsedTime = s.elapsedTime + 1]
            ELSE [s EXCEPT !.sequence = seq]

\* whether the transition takes the branch that sleeps (sequence wrapped to 0)
wraps(s, cur) == ~(s.elapsedTime < cur) /\ BitAnd(s.sequence + 1, maskSequence(s)) = 0

\* Faulty variant of sleepTime: one time unit too many
sleepTimeOneMore(s, overtime, t) == (overtime + 1) * s.timeUnit - Rem(t, s.timeUnit)

\* Sonyflake.sleep: the duration handed to time.Sleep, t being the clock it reads
sleepTime(s, overtime, t) == overtime * s.timeUnit - Rem(t, s.timeUnit)

(***************************************************************************)
(* nextIDInternal (the generator with NextReproducibleID): the fields      *)
(* after its if statement, cur being currentElapsedTime(now, startTime),   *)
(* and the duration it sleeps when the sequence wraps.                     *)
(***************************************************************************)
\* Faulty variant of nextIDInternalState: the sequence wraps to 0 without elapsedTime
\* moving on
nextIDInternalNoCarry(s, cur) ==
    IF s.elapsedTime < cur
    THEN [s EXCEPT !.elapsedTime = cur, !.sequence = 0]
    ELSE [s EXCEPT !.sequence = BitAnd(s.sequence + 1, Shl(1, s.bitsSequence) - 1)]

nextIDInternalState(s, cur) ==
    IF s.elapsedTime < cur
    THEN [s EXCEPT !.elapsedTime = cur, !.sequence = 0]
    ELSE LET seq == BitAnd(s.sequence + 1, Shl(1, s.bitsSequence) - 1)
         IN IF seq = 0
            THEN [s EXCEPT !.sequence = seq, !.elapsedTime = s.elapsedTime + 1]
            ELSE [s EXCEPT !.sequence = seq]

sleepTimeOf(s, t, overtime) == overtime * s.timeUnit - Rem(t, s.timeUnit)

(***************************************************************************)
(* The codec: Compose, Decompose and its parts, ToTime.                    *)
(***************************************************************************)
\* Faulty variants of the codec.
\* the time shifted past the machine ID only
ComposeShortShift(s, t, sequence, machineID) ==
    LET elapsedTime == toInternalTime(s, t) - s.startTime
    IN IF elapsedTime < 0 THEN [id |-> 0, err |-> ErrStartTimeAhead]
       ELSE IF GeShl1(elapsedTime, s.bitsTime) THEN [id |-> 0, err |-> ErrOverTimeLimit]
       ELSE IF sequence < 0 \/ sequence >= Shl(1, s.bitsSequence)
            THEN [id |-> 0, err |-> ErrInvalidSequence]
       ELSE IF machineID < 0 \/ machineID >= Shl(1, s.bitsMachine)
            THEN [id |-> 0, err |-> ErrInvalidMachineID]
       ELSE [id |-> BitOr(BitOr(Shl(elapsedTime, s.bitsMachine),
                                Shl(sequence, s.bitsMachine)),
                          machineID),
             err |-> ErrNone]

\* the sequence number tested with > in place of >=
ComposeLooseSequence(s, t, sequence, machineID) ==
    LET elapsedTime == toInternalTime(s, t) - s.startTime
    IN IF elapsedTime < 0 THEN [id |-> 0, err |-> ErrStartTimeAhead]
       ELSE IF GeShl1(elapsedTime, s.bitsTime) THEN [id |-> 0, err |-> ErrOverTimeLimit]
       ELSE IF sequence < 0 \/ sequence > Shl(1, s.bitsSequence)
            THEN [id |-> 0, err |-> ErrInvalidSequence]
       ELSE IF machineID < 0 \/ machineID >= Shl(1, s.bitsMachine)
            THEN [id |-> 0, err |-> ErrInvalidMachineID]
       ELSE [id |-> BitOr(BitOr(Shl(elapsedTime, s.bitsSequence + s.bitsMachine),
                                Shl(sequence, s.bitsMachine)),
                          machineID),
             err |-> ErrNone]

Compose(s, t, sequence, machineID) ==
    LET elapsedTime == toInternalTime(s, t) - s.startTime
    IN IF elapsedTime < 0 THEN [id |-> 0, err |-> ErrStartTimeAhead]
       ELSE IF GeShl1(elapsedTime, s.bitsTime) THEN [id |-> 0, err |-> ErrOverTimeLimit]
       ELSE IF sequence < 0 \/ sequence >= Shl(1, s.bitsSequence)
            THEN [id |-> 0, err |-> ErrInvalidSequence]
       ELSE IF machineID < 0 \/ machineID >= Shl(1, s.bitsMachine)
            THEN [id |-> 0, err |-> ErrInvalidMachineID]
       ELSE [id |-> BitOr(BitOr(Shl(elapsedTime, s.bitsSequence + s.bitsMachine),
                                Shl(sequence, s.bitsMachine)),
                          machineID),
             err |-> ErrNone]

timePart(s, id) == Shr(id, s.bitsSequence + s.bitsMachine)

\* the masked sequence bits not shifted down
sequencePartUnshifted(s, id) ==
    BitAnd(id, Shl(Shl(1, s.bitsSequence) - 1, s.bitsMachine))

sequencePart(s, id) ==
    Shr(BitAnd(id, Shl(Shl(1, s.bitsSequence) - 1, s.bitsMachine)), s.bitsMachine)

machinePart(s, id) == BitAnd(id, Shl(1, s.bitsMachine) - 1)

Decompose(s, id) ==
    [id |-> id, time |-> timePart(s, id), sequence |-> sequencePart(s, id),
     machine |-> machinePart(s, id)]

\* The sum and the product in ToTime are int64 operations: they wrap.  x as an int64
\* of generator s's arithmetic: ModelBitsInt bits wide, two's complement, on the
\* scaled-down layouts; on the default layout the values explored stay below 2^31 and
\* nothing wraps.
Int64(s, x) ==
    IF s.bitsTime = defaultBitsTime THEN x
    ELSE ((x + Pow2(ModelBitsInt - 1)) % Pow2(ModelBitsInt)) - Pow2(ModelBitsInt - 1)

\* the time.Time returned, as its UnixNano
ToTime(s, id) == Int64(s, Int64(s, s.startTime + timePart(s, id)) * s.timeUnit)

(***************************************************************************)
(* New: the generator as constructed.                                      *)
(***************************************************************************)
\* Faulty variant of NewSonyflake: the sequence counter starts at 0
NewSonyflakeSequenceZero(bt, bs, bm, tu, st, m) ==
    [bitsTime |-> bt, bitsSequence |-> bs, bitsMachine |-> bm,
     timeUnit |-> tu, startTime |-> st, elapsedTime |-> 0,
     sequence |-> 0, machine |-> m]

NewSonyflake(bt, bs, bm, tu, st, m) ==
    [bitsTime |-> bt, bitsSequence |-> bs, bitsMachine |-> bm,
     timeUnit |-> tu, startTime |-> st, elapsedTime |-> 0,
     sequence |-> Shl(1, bs) - 1, machine |-> m]

\* a generator with the scaled-down layout, its epoch at Unix time 0
ModelSonyflake(m) ==
    NewSonyflake(ModelBitsTime, ModelBitsSequence, ModelBitsMachine, ModelTimeUnit, 0, m)

ModelMachines == 0..(Pow2(ModelBitsMachine) - 1)

(***************************************************************************)
(* New(st).  Settings st has the fields BitsSequence, BitsMachineID,       *)
(* TimeUnit (nanoseconds), StartTime ([zero, ns]: the zero time.Time, or   *)
(* the instant ns nanoseconds after Unix time 0), MachineID ([nil, id,     *)
(* err]: no function, or the function's results) and CheckMachineID ([nil, *)
(* accepts]: no function, or the IDs for which the function returns true). *)
(* t is what time.Now() returns, ip what lower16BitPrivateIP returns on    *)
(* the machine.  The result is the pair (sf, err) and, in checked, the     *)
(* arguments CheckMachineID was called with, in order.                     *)
(***************************************************************************)
\* Instants are nanoseconds after Unix time 0, kept below 2^31: the default epoch,
\* 2025-01-01 00:00:00 UTC, is placed 20 ms after Unix time 0.
ModelDefaultStart == 20000000

\* the nil *Sonyflake
NilSonyflake == [nil |-> TRUE]

Failed(err) == [sf |-> NilSonyflake, err |-> err, checked |-> <<>>]

invalidBitsSequence(st) == st.BitsSequence < 0 \/ st.BitsSequence > 30

invalidBitsMachineID(st) == st.BitsMachineID < 0 \/ st.BitsMachineID > 30

\* Faulty variant of invalidTimeUnit: only a negative time unit is refused
invalidTimeUnitNegativeOnly(st) == st.TimeUnit < 0

invalidTimeUnit(st) ==
    st.TimeUnit < 0 \/ (st.TimeUnit > 0 /\ st.TimeUnit < Millisecond)

\* Faulty variant of startTimeAhead: a start time equal to the clock reading is
\* refused too
startTimeAheadOrNow(st, t) == ~st.StartTime.zero /\ st.StartTime.ns >= t

\* st.StartTime.After(time.Now()); the zero time.Time is after no clock reading
startTimeAhead(st, t) == ~st.StartTime.zero /\ st.StartTime.ns > t

\* Faulty variant of invalidBitsTime: 31 bits of time are let through
invalidBitsTimeLoose(bt) == bt < 31

invalidBitsTime(bt) == bt < 32

\* Faulty variant of invalidMachineID: 2^bitsMachine itself is let through
invalidMachineIDLoose(m, bm) == m < 0 \/ m > Shl(1, bm)

\* Faulty variant of invalidMachineID: a negative machine ID is let through
invalidMachineIDNoSign(m, bm) == m >= Shl(1, bm)

invalidMachineID(m, bm) == m < 0 \/ m >= Shl(1, bm)

\* sf.bitsSequence: the default in place of 0
bitsSequenceOf(st) ==
    IF st.BitsSequence = 0 THEN defaultBitsSequence ELSE st.BitsSequence

\* Faulty variant of bitsMachineOf: a width of 0 is kept
bitsMachineOfNoDefault(st) == st.BitsMachineID

\* sf.bitsMachine: the default in place of 0
bitsMachineOf(st) ==
    IF st.BitsMachineID = 0 THEN defaultBitsMachine ELSE st.BitsMachineID

\* Faulty variant of machineOf: the caller's error is replaced by InvalidMachineID
machineOfOwnError(st, ip) ==
    IF st.MachineID.nil THEN ip
    ELSE [id |-> st.MachineID.id,
          err |-> IF st.MachineID.err = ErrNone THEN ErrNone ELSE ErrInvalidMachineID]

\* sf.machine, err: from lower16BitPrivateIP when there is no MachineID function,
\* else from that function
machineOf(st, ip) ==
    IF st.MachineID.nil THEN ip
    ELSE [id |-> st.MachineID.id, err |-> st.MachineID.err]

\* Faulty variant of checkFails: the answer of CheckMachineID is ignored
checkFailsNever(st, m) == FALSE

\* st.CheckMachineID != nil && !st.CheckMachineID(sf.machine)
checkFails(st, m) == ~st.CheckMachineID.nil /\ m \notin st.CheckMachineID.accepts

New(st, t, ip) ==
    IF invalidBitsSequence(st) THEN Failed(ErrInvalidBitsSequence)
    ELSE IF invalidBitsMachineID(st) THEN Failed(ErrInvalidBitsMachineID)
    ELSE IF invalidTimeUnit(st) THEN Failed(ErrInvalidTimeUnit)
    ELSE IF startTimeAhead(st, t) THEN Failed(ErrStartTimeAhead)
    ELSE
      LET bs == bitsSequenceOf(st)
          bm == bitsMachineOf(st)
          bt == 63 - bs - bm
      IN IF invalidBitsTime(bt) THEN Failed(ErrInvalidBitsTime)
         ELSE
           LET tu == IF st.TimeUnit = 0 THEN defaultTimeUnit ELSE st.TimeUnit
               start == IF st.StartTime.zero
                        THEN toInternalTime([timeUnit |-> tu], ModelDefaultStart)
                        ELSE toInternalTime([timeUnit |-> tu], st.StartTime.ns)
               m == machineOf(st, ip)
           IN IF m.err # ErrNone THEN Failed(m.err)
              ELSE IF invalidMachineID(m.id, bm) THEN Failed(ErrInvalidMachineID)
              ELSE IF checkFails(st, m.id)
                   THEN [sf |-> NilSonyflake, err |-> ErrInvalidMachineID,
                         checked |-> <<m.id>>]
              ELSE [sf |-> NewSonyflake(bt, bs, bm, tu, start, m.id), err |-> ErrNone,
                    checked |-> IF st.CheckMachineID.nil THEN <<>> ELSE <<m.id>>]

\* the callers in active are about to call generators; the others make no call
Callers(use, active) ==
    /\ gen = use
    /\ pc = [p \in Procs |-> IF p \in active THEN "idle" ELSE "done"]
    /\ current = [p \in Procs |-> 0]
    /\ sleepLeft = [p \in Procs |-> 0]
    /\ ret = [p \in Procs |-> NoRet]
    /\ calls = 0
    /\ watched = Nobody
    /\ codec = NoCodec

\* no wall clock kept, no replay, nothing tallied, New not called
Unobserved ==
    /\ now = NoClock
    /\ replay = NoReplay
    /\ tally = NoTally
    /\ built = NoBuilt

\* one generator shared by all callers
Init ==
    /\ sf = [g \in {1} |-> ModelSonyflake(Pow2(ModelBitsMachine) - 1)]
    /\ mutex = [g \in {1} |-> 0]
    /\ Callers([p \in Procs |-> 1], Procs)
    /\ Unobserved

\* two generators with the same layout and different machine IDs (the two largest
\* of the layout, which differ in the lowest bit), each with its own caller
InitTwo ==
    /\ sf = [g \in Gens |-> ModelSonyflake(Pow2(ModelBitsMachine) - 3 + g)]
    /\ mutex = [g \in Gens |-> 0]
    /\ Callers([p \in Procs |-> p], Procs)
    /\ Unobserved

\* one generator with one caller of NextID; the codec is called from elsewhere
InitFrame ==
    /\ sf = [g \in {1} |-> ModelSonyflake(Pow2(ModelBitsMachine) - 1)]
    /\ mutex = [g \in {1} |-> 0]
    /\ Callers([p \in Procs |-> 1], {1})
    /\ Unobserved

\* a generator with the default layout and time unit, its epoch 5 units after Unix
\* time 0, and the machine ID of TestReproducibleIDs
DefaultSonyflake ==
    NewSonyflake(defaultBitsTime, defaultBitsSequence, defaultBitsMachine,
                 defaultTimeUnit, 5, 127)

\* a scaled-down generator and a default one; no caller generates identifiers
InitCodec ==
    /\ \E m \in ModelMachines : sf = (1 :> ModelSonyflake(m)) @@ (2 :> DefaultSonyflake)
    /\ mutex = [g \in Gens |-> 0]
    /\ Callers([p \in Procs |-> 1], {})
    /\ Unobserved

(***************************************************************************)
(* NextID, step by step.  t is what time.Now() returns when it is read.    *)
(***************************************************************************)
\* Faulty variant of Lock: the call proceeds whether or not the mutex is free
LockNoExclusion(p) ==
    /\ pc[p] = "idle"
    /\ calls < MaxCalls
    /\ sf[gen[p]].elapsedTime < MaxElapsedTime
    /\ calls' = calls + 1
    /\ mutex' = [mutex EXCEPT ![gen[p]] = p]
    /\ pc' = [pc EXCEPT ![p] = "locked"]
    /\ UNCHANGED <<sf, gen, current, sleepLeft, ret, watched, codec,
                   now, replay, tally, built>>

\* sf.mutex.Lock()
Lock(p) ==
    /\ pc[p] = "idle"
    /\ mutex[gen[p]] = 0
    /\ calls < MaxCalls
    /\ sf[gen[p]].elapsedTime < MaxElapsedTime
    /\ calls' = calls + 1
    /\ mutex' = [mutex EXCEPT ![gen[p]] = p]
    /\ pc' = [pc EXCEPT ![p] = "locked"]
    /\ UNCHANGED <<sf, gen, current, sleepLeft, ret, watched, codec,
                   now, replay, tally, built>>

\* current := sf.currentElapsedTime() and the update of elapsedTime and sequence
Transition(p, t) ==
    /\ pc[p] = "locked"
    /\ LET g == gen[p]
           cur == currentElapsedTime(sf[g], t)
       IN /\ current' = [current EXCEPT ![p] = IF wraps(sf[g], cur) THEN cur ELSE 0]
          /\ sf' = [sf EXCEPT ![g] = nextState(sf[g], cur)]
          /\ pc' = [pc EXCEPT ![p] = IF wraps(sf[g], cur) THEN "sleep" ELSE "toID"]
    /\ UNCHANGED <<mutex, gen, sleepLeft, ret, calls, watched, codec,
                   now, replay, tally, built>>

\* Faulty variant of nextIDInternal: the clock is read in place of the timestamp
\* supplied
nextIDInternalReadsClock(p, t) ==
    \E c \in Clock :
        /\ pc[p] = "locked"
        /\ LET g == gen[p]
               cur == currentElapsedTime(sf[g], c)
               new == nextIDInternalState(sf[g], cur)
               slept == new.sequence = 0 /\ ~(sf[g].elapsedTime < cur)
           IN /\ sf' = [sf EXCEPT ![g] = new]
              /\ sleepLeft' = [sleepLeft EXCEPT ![p] =
                                 IF slept THEN sleepTimeOf(sf[g], c, new.elapsedTime - cur)
                                 ELSE 0]
              /\ pc' = [pc EXCEPT ![p] = IF slept THEN "sleeping" ELSE "toID"]
        /\ UNCHANGED <<mutex, gen, current, ret, calls, watched, codec,
                       now, replay, tally, built>>

\* nextIDInternal(now) under the lock: NextReproducibleID(now), the caller supplying
\* the timestamp t.  The sleep is computed from t; no clock is read.
nextIDInternal(p, t) ==
    /\ pc[p] = "locked"
    /\ LET g == gen[p]
           cur == currentElapsedTime(sf[g], t)
           new == nextIDInternalState(sf[g], cur)
           slept == new.sequence = 0 /\ ~(sf[g].elapsedTime < cur)
       IN /\ sf' = [sf EXCEPT ![g] = new]
          /\ sleepLeft' = [sleepLeft EXCEPT ![p] =
                             IF slept THEN sleepTimeOf(sf[g], t, new.elapsedTime - cur)
                             ELSE 0]
          /\ pc' = [pc EXCEPT ![p] = IF slept THEN "sleeping" ELSE "toID"]
    /\ UNCHANGED <<mutex, gen, current, ret, calls, watched, codec,
                   now, replay, tally, built>>

\* sf.sleep(overtime): reads the clock again and calls time.Sleep
SleepStart(p, t) ==
    /\ pc[p] = "sleep"
    /\ LET g == gen[p]
           overtime == sf[g].elapsedTime - current[p]
       IN sleepLeft' = [sleepLeft EXCEPT ![p] = sleepTime(sf[g], overtime, t)]
    /\ current' = [current EXCEPT ![p] = 0]
    /\ pc' = [pc EXCEPT ![p] = "sleeping"]
    /\ UNCHANGED <<sf, mutex, gen, ret, calls, watched, codec,
                   now, replay, tally, built>>

\* time.Sleep returns
Wake(p) ==
    /\ pc[p] = "sleeping"
    /\ sleepLeft' = [sleepLeft EXCEPT ![p] = 0]
    /\ pc' = [pc EXCEPT ![p] = "toID"]
    /\ UNCHANGED <<sf, mutex, gen, current, ret, calls, watched, codec,
                   now, replay, tally, built>>

\* return sf.toID(): the results are set while the lock is still held
ToID(p) ==
    /\ pc[p] = "toID"
    /\ ret' = [ret EXCEPT ![p] = toID(sf[gen[p]])]
    /\ pc' = [pc EXCEPT ![p] = "unlock"]
    /\ UNCHANGED <<sf, mutex, gen, current, sleepLeft, calls, watched, codec,
                   now, replay, tally, built>>

\* Faulty variant of Unlock: the lock is kept when the call fails
UnlockOnSuccess(p) ==
    /\ pc[p] = "unlock"
    /\ mutex' = [mutex EXCEPT ![gen[p]] = IF ret[p].err = ErrNone THEN 0 ELSE @]
    /\ pc' = [pc EXCEPT ![p] = "return"]
    /\ UNCHANGED <<sf, gen, current, sleepLeft, ret, calls, watched, codec,
                   now, replay, tally, built>>

\* the deferred sf.mutex.Unlock()
Unlock(p) ==
    /\ pc[p] = "unlock"
    /\ mutex' = [mutex EXCEPT ![gen[p]] = 0]
    /\ pc' = [pc EXCEPT ![p] = "return"]
    /\ UNCHANGED <<sf, gen, current, sleepLeft, ret, calls, watched, codec,
                   now, replay, tally, built>>

\* the call returns to its caller.  The observer keeps one returned result of its
\* choice in watched: every pair of an earlier return and a later one shows up in
\* some behaviour as watched and the ret[q] of a caller q about to return.  The
\* result of a caller that replays timestamps is kept for the round, and an
\* identifier with the tallied time part is counted.
Return(p) ==
    /\ pc[p] = "return"
    /\ \/ watched = Nobody /\ watched' = [p |-> p, id |-> ret[p].id, err |-> ret[p].err]
       \/ watched' = watched
    /\ replay' = IF p \in replay.callers
                  THEN [replay EXCEPT !.out = (p :> ret[p]) @@ @]
                  ELSE replay
    /\ tally' = IF ret[p].err = ErrNone /\ timePart(sf[gen[p]], ret[p].id) = tally.time
                 THEN [tally EXCEPT !.count = @ + 1]
                 ELSE tally
    /\ pc' = [pc EXCEPT ![p] = "idle"]
    /\ ret' = [ret EXCEPT ![p] = NoRet]
    /\ UNCHANGED <<sf, mutex, gen, current, sleepLeft, calls, codec, now, built>>

(***************************************************************************)
(* Calls of the codec on generator g.  They take no lock.                  *)
(***************************************************************************)
\* Faulty variant of ComposeCall: the elapsed time it computes is stored in the generator
ComposeCallStoring(g, t, sequence, machineID) ==
    /\ LET r == Compose(sf[g], t, sequence, machineID)
       IN codec' = [op |-> "Compose", g |-> g, t |-> t, sequence |-> sequence,
                    machineID |-> machineID, id |-> r.id, err |-> r.err]
    /\ sf' = [sf EXCEPT ![g].elapsedTime = toInternalTime(sf[g], t) - sf[g].startTime]
    /\ UNCHANGED <<mutex, gen, pc, current, sleepLeft, ret, calls, watched,
                   now, replay, tally, built>>

ComposeCall(g, t, sequence, machineID) ==
    /\ LET r == Compose(sf[g], t, sequence, machineID)
       IN codec' = [op |-> "Compose", g |-> g, t |-> t, sequence |-> sequence,
                    machineID |-> machineID, id |-> r.id, err |-> r.err]
    /\ UNCHANGED <<sf, mutex, gen, pc, current, sleepLeft, ret, calls, watched,
                   now, replay, tally, built>>

DecomposeCall(g, id) ==
    /\ codec' = [op |-> "Decompose", g |-> g, id |-> id, parts |-> Decompose(sf[g], id)]
    /\ UNCHANGED <<sf, mutex, gen, pc, current, sleepLeft, ret, calls, watched,
                   now, replay, tally, built>>

ToTimeCall(g, id) ==
    /\ codec' = [op |-> "ToTime", g |-> g, id |-> id, time |-> ToTime(sf[g], id)]
    /\ UNCHANGED <<sf, mutex, gen, pc, current, sleepLeft, ret, calls, watched,
                   now, replay, tally, built>>

\* the inputs explored for generator g: elapsed times from before the epoch to the
\* time limit (the default layout: up to 127, identifiers staying below 2^31), each
\* at the start and at the end of its time unit; sequence numbers and machine IDs
\* from below to above their ranges
ElapsedInputs(g) ==
    IF sf[g].bitsTime = defaultBitsTime THEN {-1, 0, 100, 127}
    ELSE -2..Pow2(sf[g].bitsTime)

TimeInputs(g) ==
    {(sf[g].startTime + e) * sf[g].timeUnit + d :
        e \in ElapsedInputs(g), d \in {0, sf[g].timeUnit - 1}}

SequenceInputs(g) ==
    {-1, 0, 1, Pow2(sf[g].bitsSequence) - 1, Pow2(sf[g].bitsSequence)}

MachineInputs(g) ==
    {-1, 0, 1, sf[g].machine, Pow2(sf[g].bitsMachine) - 1, Pow2(sf[g].bitsMachine)}

IDInputs(g) ==
    IF sf[g].bitsTime = defaultBitsTime THEN {0, 1677721727, 1694498943, 2147483647}
    ELSE 0..(Pow2(sf[g].bitsTime + sf[g].bitsSequence + sf[g].bitsMachine) - 1)

Next ==
    \/ \E p \in Procs : Lock(p)
    \/ \E p \in Procs, t \in Clock : Transition(p, t)
    \/ \E p \in Procs, t \in Clock : nextIDInternal(p, t)
    \/ \E p \in Procs, t \in Clock : SleepStart(p, t)
    \/ \E p \in Procs : Wake(p)
    \/ \E p \in Procs : ToID(p)
    \/ \E p \in Procs : Unlock(p)
    \/ \E p \in Procs : Return(p)

\* one codec call on every input explored
NextCodec ==
    \/ \E g \in DOMAIN sf :
          \E t \in TimeInputs(g), s \in SequenceInputs(g), m \in MachineInputs(g) :
             codec = NoCodec /\ ComposeCall(g, t, s, m)
    \/ \E g \in DOMAIN sf : \E id \in IDInputs(g) : codec = NoCodec /\ DecomposeCall(g, id)
    \/ \E g \in DOMAIN sf : \E id \in IDInputs(g) : codec = NoCodec /\ ToTimeCall(g, id)

\* a few codec calls, succeeding and failing, among the calls of NextID: Compose before
\* the epoch, in the first time unit after it and in the last one under the time limit,
\* with a negative sequence number and with the largest one
NextFrame ==
    \/ Next
    \/ \E g \in DOMAIN sf, t \in {MinNow, ModelTimeUnit, MaxNow - ModelTimeUnit} :
          \E s \in {-1, maskSequence(sf[g])} : ComposeCall(g, t, s, sf[g].machine)
    \/ \E g \in DOMAIN sf : DecomposeCall(g, Pow2(sf[g].bitsMachine))
    \/ \E g \in DOMAIN sf : ToTimeCall(g, Pow2(sf[g].bitsMachine))

\* one generator shared by concurrent callers, any clock
Spec == Init /\ [][Next]_vars

\* two generators, any clock
SpecTwo == InitTwo /\ [][Next]_vars

\* the codec alone, on every input explored
SpecCodec == InitCodec /\ [][NextCodec]_vars

\* one generator and one caller of NextID, with codec calls between its steps
SpecFrame == InitFrame /\ [][NextFrame]_vars

(***************************************************************************)
(* Replaying timestamps: callers of NextReproducibleID that are all        *)
(* supplied the same sequence of timestamps, one timestamp per round.      *)
(***************************************************************************)
\* the callers of replay.callers have all returned from this round's call: the
\* next timestamp, t, is supplied
Supply(t) ==
    /\ replay.callers # {}
    /\ DOMAIN replay.out = replay.callers
    /\ replay' = [replay EXCEPT !.t = t, !.out = <<>>]
    /\ UNCHANGED <<sf, mutex, gen, pc, current, sleepLeft, ret, calls, watched, codec,
                   now, tally, built>>

\* p has not made this round's call yet
Due(p) == p \in replay.callers /\ p \notin DOMAIN replay.out

\* a newly constructed generator and one caller, supplied the timestamp t in every
\* round
InitSame ==
    /\ sf = [g \in {1} |-> ModelSonyflake(Pow2(ModelBitsMachine) - 1)]
    /\ mutex = [g \in {1} |-> 0]
    /\ Callers([p \in Procs |-> 1], {1})
    /\ now = NoClock
    /\ \E t \in Clock : replay = [t |-> t, callers |-> {1}, out |-> <<>>]
    /\ tally = NoTally
    /\ built = NoBuilt

NextSame ==
    \/ Supply(replay.t)
    \/ \E p \in Procs : Due(p) /\ Lock(p)
    \/ \E p \in Procs : nextIDInternal(p, replay.t)
    \/ \E p \in Procs : Wake(p)
    \/ \E p \in Procs : ToID(p)
    \/ \E p \in Procs : Unlock(p)
    \/ \E p \in Procs : Return(p)

\* two newly constructed generators with the same epoch, layout and machine ID, each
\* with its own caller; both callers are supplied the same timestamps
InitReplay ==
    /\ sf = [g \in Gens |-> ModelSonyflake(Pow2(ModelBitsMachine) - 1)]
    /\ mutex = [g \in Gens |-> 0]
    /\ Callers([p \in Procs |-> p], Procs)
    /\ now = NoClock
    /\ \E t \in Clock : replay = [t |-> t, callers |-> Procs, out |-> <<>>]
    /\ tally = NoTally
    /\ built = NoBuilt

NextReplay ==
    \/ \E t \in Clock : Supply(t)
    \/ \E p \in Procs : Due(p) /\ Lock(p)
    \/ \E p \in Procs : nextIDInternal(p, replay.t)
    \/ \E p \in Procs : Wake(p)
    \/ \E p \in Procs : ToID(p)
    \/ \E p \in Procs : Unlock(p)
    \/ \E p \in Procs : Return(p)

\* one caller of NextReproducibleID, the same timestamp in every call
SpecSame == InitSame /\ [][NextSame]_vars

\* two generators replaying the same timestamps
SpecReplay == InitReplay /\ [][NextReplay]_vars

(***************************************************************************)
(* NextID on a wall clock.  Time passes one nanosecond at a time, at any   *)
(* point of a call; the clock is set back only while no call is in         *)
(* progress, so that it never goes backwards during a call.  time.Sleep(d) *)
(* returns once d has passed, at once when d <= 0.                         *)
(***************************************************************************)
TickTo(last) ==
    /\ now.t < last
    /\ now' = [now EXCEPT !.t = @ + 1]
    /\ sleepLeft' = [p \in Procs |->
                        IF pc[p] = "sleeping" /\ sleepLeft[p] > 0
                        THEN sleepLeft[p] - 1 ELSE sleepLeft[p]]
    /\ UNCHANGED <<sf, mutex, gen, pc, current, ret, calls, watched, codec,
                   replay, tally, built>>

Tick == TickTo(MaxNow)

Jump(t) ==
    /\ \A p \in Procs : pc[p] \in {"idle", "done"}
    /\ t < now.t
    /\ now' = [t |-> t, back |-> TRUE]
    /\ UNCHANGED <<sf, mutex, gen, pc, current, sleepLeft, ret, calls, watched, codec,
                   replay, tally, built>>

\* Faulty variant of Slept: time.Sleep returns before the duration has passed
SleptNothing(p) == TRUE

\* the duration of p's time.Sleep has passed
Slept(p) == sleepLeft[p] <= 0

\* one generator with one caller of NextID, constructed at its epoch
InitClock ==
    /\ sf = [g \in {1} |-> ModelSonyflake(Pow2(ModelBitsMachine) - 1)]
    /\ mutex = [g \in {1} |-> 0]
    /\ Callers([p \in Procs |-> 1], {1})
    /\ Unobserved

NextClock ==
    \/ Tick
    \/ \E t \in Clock : Jump(t)
    \/ \E p \in Procs : Lock(p)
    \/ \E p \in Procs : Transition(p, now.t)
    \/ \E p \in Procs : SleepStart(p, now.t)
    \/ \E p \in Procs : Slept(p) /\ Wake(p)
    \/ \E p \in Procs : ToID(p)
    \/ \E p \in Procs : Unlock(p)
    \/ \E p \in Procs : Return(p)

SpecClock == InitClock /\ [][NextClock]_vars

(***************************************************************************)
(* Counting the identifiers issued with one time part: the time value is   *)
(* fixed at the start, and Return counts the identifiers that carry it.    *)
(***************************************************************************)
\* one generator with one caller, which makes every call; any time value below the
\* time limit
InitTally ==
    /\ sf = [g \in {1} |-> ModelSonyflake(Pow2(ModelBitsMachine) - 1)]
    /\ mutex = [g \in {1} |-> 0]
    /\ Callers([p \in Procs |-> 1], {1})
    /\ now = NoClock
    /\ replay = NoReplay
    /\ \E T \in 0..(Pow2(ModelBitsTime) - 1) : tally = [time |-> T, count |-> 0]
    /\ built = NoBuilt

\* any clock, as in Spec
SpecTally == InitTally /\ [][Next]_vars

(***************************************************************************)
(* Calls of New, on the settings, clock readings and machines explored.    *)
(***************************************************************************)
\* the instants at which New is called: before and after the default epoch
ConstructionTimes == {ModelDefaultStart - Millisecond, ModelDefaultStart + Millisecond}

\* bit widths from below to above [0, 30], with sums on both sides of 31
BitsInputs == {-1, 0, 1, 8, 23, 24, 30, 31}

TimeUnitInputs == {-1, 0, 1, Millisecond - 1, Millisecond, defaultTimeUnit}

\* the zero time.Time, an instant before t, t itself and the instant after t
StartTimeInputs(t) ==
    {[zero |-> TRUE, ns |-> 0]} \cup {[zero |-> FALSE, ns |-> n] : n \in {t - Millisecond, t, t + 1}}

\* the errors of the caller's MachineID function
ErrMachineID == "machine id unavailable"

\* machine IDs from below 0 to 2^30, around the ends of the ranges of 1, 16 and 30 bits
MachineIDs == {-1, 0, 1, 2, 65535, 65536, Pow2(30) - 1, Pow2(30)}

\* no MachineID function, one that returns an ID, one that returns an error
MachineIDInputs ==
    {[nil |-> TRUE, id |-> 0, err |-> ErrNone], [nil |-> FALSE, id |-> 0, err |-> ErrMachineID]}
        \cup {[nil |-> FALSE, id |-> m, err |-> ErrNone] : m \in MachineIDs}

\* what lower16BitPrivateIP returns: no private address, or the lower 16 bits of one;
\* it is called only when there is no MachineID function
PrivateIPInputs(st) ==
    IF st.MachineID.nil
    THEN {[id |-> 0, err |-> ErrNoPrivateAddress], [id |-> 0, err |-> ErrNone],
          [id |-> 65535, err |-> ErrNone]}
    ELSE {[id |-> 0, err |-> ErrNoPrivateAddress]}

\* no CheckMachineID function, one that rejects every ID, one that accepts some
CheckMachineIDInputs ==
    {[nil |-> TRUE, accepts |-> {}], [nil |-> FALSE, accepts |-> {}],
     [nil |-> FALSE, accepts |-> {0, 1, 65535, Pow2(30) - 1}]}

SettingsInputs(t) ==
    [BitsSequence : BitsInputs, BitsMachineID : BitsInputs, TimeUnit : TimeUnitInputs,
     StartTime : StartTimeInputs(t), MachineID : MachineIDInputs,
     CheckMachineID : CheckMachineIDInputs]

NewCall(st, t, ip) ==
    /\ LET r == New(st, t, ip)
       IN built' = [op |-> "New", st |-> st, t |-> t, ip |-> ip,
                    sf |-> r.sf, err |-> r.err, checked |-> r.checked]
    /\ UNCHANGED <<sf, mutex, gen, pc, current, sleepLeft, ret, calls, watched, codec,
                   now, replay, tally>>

\* no generator yet
InitNew ==
    /\ sf = <<>>
    /\ mutex = <<>>
    /\ Callers([p \in Procs |-> 0], {})
    /\ Unobserved

\* one call of New on every input explored
NextNew ==
    /\ built = NoBuilt
    /\ \E t \in ConstructionTimes : \E st \in SettingsInputs(t) :
          \E ip \in PrivateIPInputs(st) : NewCall(st, t, ip)

SpecNew == InitNew /\ [][NextNew]_vars

(***************************************************************************)
(* Termination of NextID.  Two callers share one generator on a wall clock *)
(* that only advances.  A caller that has called NextID is blocked in      *)
(* sf.mutex.Lock() until the mutex is free and is handed to it.            *)
(***************************************************************************)
\* the last clock reading of the termination check, one time unit after the largest
\* elapsedTime from which a call is started
LastNow == (MaxElapsedTime + 1) * ModelTimeUnit

\* time passes, one nanosecond at a time.  The readings from LastNow on are not told
\* apart: the clock reads LastNow from then on, and the time left of a sleep keeps
\* running down.
Elapse ==
    \/ TickTo(LastNow)
    \/ /\ now.t = LastNow
       /\ \E p \in Procs : pc[p] = "sleeping" /\ sleepLeft[p] > 0
       /\ sleepLeft' = [p \in Procs |->
                           IF pc[p] = "sleeping" /\ sleepLeft[p] > 0
                           THEN sleepLeft[p] - 1 ELSE sleepLeft[p]]
       /\ UNCHANGED <<sf, mutex, gen, pc, current, ret, calls, watched, codec,
                      now, replay, tally, built>>

\* p calls NextID and blocks in sf.mutex.Lock()
Call(p) ==
    /\ pc[p] = "idle"
    /\ calls < MaxCalls
    /\ sf[gen[p]].elapsedTime < MaxElapsedTime
    /\ calls' = calls + 1
    /\ pc' = [pc EXCEPT ![p] = "waiting"]
    /\ UNCHANGED <<sf, mutex, gen, current, sleepLeft, ret, watched, codec,
                   now, replay, tally, built>>

\* sf.mutex.Lock() returns: the mutex was free and is p's now
Acquire(p) ==
    /\ pc[p] = "waiting"
    /\ mutex[gen[p]] = 0
    /\ mutex' = [mutex EXCEPT ![gen[p]] = p]
    /\ pc' = [pc EXCEPT ![p] = "locked"]
    /\ UNCHANGED <<sf, gen, current, sleepLeft, ret, calls, watched, codec,
                   now, replay, tally, built>>

\* the steps of p's call from the lock to the return; nothing is kept of the result
Proceed(p) ==
    \/ Transition(p, now.t)
    \/ SleepStart(p, now.t)
    \/ Slept(p) /\ Wake(p)
    \/ ToID(p)
    \/ Unlock(p)
    \/ Return(p) /\ watched' = watched

\* the first clock reading of the termination check: two time units before the
\* generator's time limit
FirstNow == (Pow2(ModelBitsTime) - 2) * ModelTimeUnit

\* one generator shared by all callers, constructed with an epoch so far in the past
\* that its time limit is two time units ahead
InitLive ==
    /\ sf = [g \in {1} |-> ModelSonyflake(Pow2(ModelBitsMachine) - 1)]
    /\ mutex = [g \in {1} |-> 0]
    /\ Callers([p \in Procs |-> 1], Procs)
    /\ now = [t |-> FirstNow, back |-> FALSE]
    /\ replay = NoReplay
    /\ tally = NoTally
    /\ built = NoBuilt

NextLive ==
    \/ Elapse
    \/ \E p \in Procs : Call(p)
    \/ \E p \in Procs : Acquire(p)
    \/ \E p \in Procs : Proceed(p)

\* the clock keeps advancing, the mutex is granted fairly (a caller that finds it free
\* again and again gets it), and a call that can take its next step takes it
SpecLive ==
    /\ InitLive
    /\ [][NextLive]_vars
    /\ WF_vars(Elapse)
    /\ \A p \in Procs : SF_vars(Acquire(p)) /\ WF_vars(Proceed(p))

(***************************************************************************)
(* Decomposing an identifier and composing it again: Decompose(id), then   *)
(* Compose(ToTime(id), sequence, machine) with the parts it returned.      *)
(***************************************************************************)
\* a generator with the scaled-down layout and a time unit so long that the time of
\* the larger time parts, in nanoseconds, does not fit an int64 (as with the default
\* layout and a time unit of 100 ms)
LongUnitSonyflake(m) ==
    NewSonyflake(ModelBitsTime, ModelBitsSequence, ModelBitsMachine,
                 Pow2(ModelBitsInt - 2), 0, m)

\* a scaled-down generator, and a second one with a long time unit or the default
\* layout; no caller generates identifiers
InitInverse ==
    /\ \E m \in ModelMachines :
          \E other \in {LongUnitSonyflake(m), DefaultSonyflake} :
             sf = (1 :> ModelSonyflake(m)) @@ (2 :> other)
    /\ mutex = [g \in Gens |-> 0]
    /\ Callers([p \in Procs |-> 1], {})
    /\ Unobserved

\* Compose is called with the time ToTime gives for the identifier just decomposed and
\* with the sequence number and the machine ID Decompose returned
ComposeBack(g) ==
    /\ codec.op = "Decompose"
    /\ codec.g = g
    /\ ComposeCall(g, ToTime(sf[g], codec.id), codec.parts.sequence, codec.parts.machine)

NextInverse ==
    \/ \E g \in DOMAIN sf : \E id \in IDInputs(g) : codec = NoCodec /\ DecomposeCall(g, id)
    \/ \E g \in DOMAIN sf : ComposeBack(g)

\* every identifier of a layout decomposed and composed again
SpecInverse == InitInverse /\ [][NextInverse]_vars

(***************************************************************************)
(* Mixed callers of one generator: caller 1 calls NextID, caller 2 calls   *)
(* NextReproducibleID with timestamps of its choice.                       *)
(***************************************************************************)
NextMixed ==
    \/ \E p \in Procs : Lock(p)
    \/ \E t \in Clock : Transition(1, t)
    \/ \E t \in Clock : SleepStart(1, t)
    \/ \E t \in Clock : nextIDInternal(2, t)
    \/ \E p \in Procs : Wake(p)
    \/ \E p \in Procs : ToID(p)
    \/ \E p \in Procs : Unlock(p)
    \/ \E p \in Procs : Return(p)

\* any clock for NextID, any timestamps for NextReproducibleID
SpecMixed == Init /\ [][NextMixed]_vars

(***************************************************************************)
(* Properties.                                                             *)
(***************************************************************************)
Succeeded(r) == r.err = ErrNone

\* p's call has computed its results and still holds the lock
Holding(p) == pc[p] = "unlock"

\* p's call has released the lock and is about to hand its results to its caller
Returning(p) == pc[p] = "return"

\* C1: successful calls issued one after another on one generator (here: by the same
\* caller, whatever the other caller does in between and whatever the clock reads)
\* return strictly increasing identifiers: a caller about to receive an identifier
\* receives one greater than any identifier it received before.
C1_SequentialIncreasing ==
    \A p \in Procs :
        (Returning(p) /\ Succeeded(ret[p]) /\ watched.p = p /\ Succeeded(watched))
            => ret[p].id > watched.id

\* a caller receives a second identifier whose sequence number wrapped to 0 in the
\* time unit after the first one's: the clock did not advance in between
C1_Witness ==
    \E p \in Procs :
        /\ Returning(p) /\ Succeeded(ret[p]) /\ watched.p = p /\ Succeeded(watched)
        /\ sequencePart(sf[gen[p]], ret[p].id) = 0
        /\ sequencePart(sf[gen[p]], watched.id) = maskSequence(sf[gen[p]])
        /\ timePart(sf[gen[p]], ret[p].id) = timePart(sf[gen[p]], watched.id) + 1

\* C2: the identifiers concurrent callers obtain from one generator are pairwise
\* distinct: an identifier about to be returned differs from every identifier
\* returned before, and two identifiers about to be returned differ.
C2_PairwiseDistinct ==
    /\ \A p \in Procs :
          ((Holding(p) \/ Returning(p)) /\ Succeeded(ret[p])
                /\ watched # Nobody /\ Succeeded(watched))
             => ret[p].id # watched.id
    /\ \A p, q \in Procs :
          (p # q /\ (Holding(p) \/ Returning(p)) /\ (Holding(q) \/ Returning(q))
                /\ Succeeded(ret[p]) /\ Succeeded(ret[q]))
             => ret[p].id # ret[q].id

\* every call of the budget has been made and the last identifier goes to a caller
\* other than the one that received the watched identifier
C2_Witness ==
    \E p \in Procs :
        /\ Returning(p) /\ Succeeded(ret[p])
        /\ watched.p \notin {0, p} /\ Succeeded(watched)
        /\ calls = MaxCalls

\* C3 as stated: of two successful calls by different callers, the one that returns
\* to its caller later never returns a smaller identifier than the one that returned
\* earlier.
C3_ReturnOrder ==
    \A p \in Procs :
        (Returning(p) /\ Succeeded(ret[p]) /\ watched.p \notin {0, p} /\ Succeeded(watched))
            => ret[p].id >= watched.id

\* C3 as amended: identifiers increase in the order in which the calls hold the
\* lock.  A call that holds the lock with its identifier computed has an identifier
\* greater than that of every call that released the lock before, whether that call
\* has returned to its caller already or not.
C3_LockOrder ==
    /\ \A p \in Procs :
          (Holding(p) /\ Succeeded(ret[p]) /\ watched # Nobody /\ Succeeded(watched))
             => ret[p].id > watched.id
    /\ \A p, q \in Procs :
          (Holding(p) /\ Returning(q) /\ Succeeded(ret[p]) /\ Succeeded(ret[q]))
             => ret[p].id > ret[q].id

\* a call has released the lock without having returned yet, and the other caller's
\* call already holds its own, later identifier
C3_Witness ==
    \E p, q \in Procs :
        /\ Holding(p) /\ Returning(q)
        /\ Succeeded(ret[p]) /\ Succeeded(ret[q])
        /\ ret[p].id > ret[q].id

\* C4: two generators with the same bit layout and different machine IDs never
\* return equal identifiers, whatever the interleaving and the clock.
C4_DistinctAcrossGenerators ==
    /\ \A p \in Procs :
          ((Holding(p) \/ Returning(p)) /\ Succeeded(ret[p])
                /\ watched # Nobody /\ Succeeded(watched) /\ gen[watched.p] # gen[p])
             => ret[p].id # watched.id
    /\ \A p, q \in Procs :
          (gen[p] # gen[q] /\ (Holding(p) \/ Returning(p)) /\ (Holding(q) \/ Returning(q))
                /\ Succeeded(ret[p]) /\ Succeeded(ret[q]))
             => ret[p].id # ret[q].id

\* the two generators produce identifiers with the same time and sequence parts
C4_Witness ==
    \E p \in Procs :
        /\ Returning(p) /\ Succeeded(ret[p])
        /\ watched # Nobody /\ Succeeded(watched) /\ gen[watched.p] # gen[p]
        /\ sf[gen[p]].machine # sf[gen[watched.p]].machine
        /\ timePart(sf[gen[p]], ret[p].id) = timePart(sf[gen[p]], watched.id)
        /\ sequencePart(sf[gen[p]], ret[p].id) = sequencePart(sf[gen[p]], watched.id)

\* the time limit of generator g: 2^bitsTime
TimeLimit(g) == Pow2(sf[g].bitsTime)

\* C5: a call fails with OverTimeLimit exactly when the generator's elapsedTime after
\* the call's transition is at least 2^bitsTime, and succeeds exactly when it is at
\* most 2^bitsTime - 1; a transition that reads a clock whose elapsed time is
\* 2^bitsTime or more leaves elapsedTime at 2^bitsTime or more, and the fields stay
\* as the transition left them until the identifier is computed, so that call fails.
C5_OverTimeLimit ==
    /\ [](\A p \in Procs :
            Holding(p) =>
                /\ ret[p].err = ErrOverTimeLimit
                      <=> sf[gen[p]].elapsedTime >= TimeLimit(gen[p])
                /\ Succeeded(ret[p])
                      <=> sf[gen[p]].elapsedTime <= TimeLimit(gen[p]) - 1)
    /\ [][\A p \in Procs, t \in Clock :
            (/\ pc[p] = "locked"
             /\ currentElapsedTime(sf[gen[p]], t) >= TimeLimit(gen[p])
             /\ Transition(p, t) \/ nextIDInternal(p, t))
               => sf'[gen[p]].elapsedTime >= TimeLimit(gen[p])]_vars
    /\ [][\A p \in Procs :
            pc[p] \in {"sleep", "sleeping", "toID"} => sf'[gen[p]] = sf[gen[p]]]_vars

\* a call fails with elapsedTime exactly 2^bitsTime, after a call that succeeded in
\* the last time unit below the limit
C5_Witness ==
    \E p \in Procs :
        /\ Holding(p) /\ ret[p].err = ErrOverTimeLimit
        /\ sf[gen[p]].elapsedTime = TimeLimit(gen[p])
        /\ watched # Nobody /\ Succeeded(watched)
        /\ timePart(sf[gen[p]], watched.id) = TimeLimit(gen[p]) - 1

\* C6: OverTimeLimit is permanent: once a call on the generator has returned
\* OverTimeLimit, every call that computes its result afterwards returns
\* OverTimeLimit too, whatever the clock reads (it may have jumped backwards).
C6_OverTimeLimitPermanent ==
    \A p \in Procs :
        (Holding(p) /\ watched.err = ErrOverTimeLimit) => ret[p].err = ErrOverTimeLimit

\* a call fails after an earlier failure, elapsedTime having moved beyond the limit
\* by a wrap of the sequence, the clock reading being no later than elapsedTime
C6_Witness ==
    \E p \in Procs :
        /\ Holding(p) /\ ret[p].err = ErrOverTimeLimit
        /\ watched.err = ErrOverTimeLimit
        /\ sf[gen[p]].elapsedTime = TimeLimit(gen[p]) + 1

(***************************************************************************)
(* The codec.  For a recorded Compose call: the generator it was made on,  *)
(* the elapsed time of its time argument, and whether each argument is in  *)
(* range.                                                                  *)
(***************************************************************************)
Composed == codec.op = "Compose"

CodecSf == sf[codec.g]

\* the time argument's elapsed time in time units, as Compose computes it
ComposedElapsed == currentElapsedTime(CodecSf, codec.t)

\* e < 2^bitsTime; with 31 bits or more in the time part, every integer explored
\* (below 2^31) is under the limit
UnderTimeLimit(s, e) == IF s.bitsTime >= 31 THEN TRUE ELSE e < Pow2(s.bitsTime)

TimeInRange == ComposedElapsed >= 0 /\ UnderTimeLimit(CodecSf, ComposedElapsed)

SequenceInRange == codec.sequence >= 0 /\ codec.sequence < Pow2(CodecSf.bitsSequence)

MachineInRange == codec.machineID >= 0 /\ codec.machineID < Pow2(CodecSf.bitsMachine)

\* C7: round trip: when the elapsed time, the sequence number and the machine ID are
\* in range, Compose succeeds, and Decompose of its result yields that elapsed time,
\* sequence number and machine ID, with the id field equal to the identifier.
C7_RoundTrip ==
    (Composed /\ TimeInRange /\ SequenceInRange /\ MachineInRange)
        => /\ codec.err = ErrNone
           /\ Decompose(CodecSf, codec.id)
                 = [id |-> codec.id, time |-> ComposedElapsed,
                    sequence |-> codec.sequence, machine |-> codec.machineID]

\* the default layout with the largest sequence number and machine ID, at the
\* largest elapsed time explored for it
C7_Witness ==
    /\ Composed /\ codec.err = ErrNone
    /\ CodecSf.bitsTime = defaultBitsTime
    /\ ComposedElapsed = 127
    /\ codec.sequence = Pow2(defaultBitsSequence) - 1
    /\ codec.machineID = Pow2(defaultBitsMachine) - 1

\* C8: for in-range fields the identifier is
\* elapsedTime * 2^(bitsSequence + bitsMachine) + sequence * 2^bitsMachine + machineID;
\* with the default layout, (100, 0, 127) encodes to 1677721727, and 1677721727
\* decodes to time 100, sequence 0, machine 127.
C8_Layout ==
    /\ (Composed /\ TimeInRange /\ SequenceInRange /\ MachineInRange)
          => codec.id = ComposedElapsed * Pow2(CodecSf.bitsSequence + CodecSf.bitsMachine)
                           + codec.sequence * Pow2(CodecSf.bitsMachine)
                           + codec.machineID
    /\ (Composed /\ CodecSf.bitsTime = defaultBitsTime /\ CodecSf.bitsSequence = defaultBitsSequence
            /\ CodecSf.bitsMachine = defaultBitsMachine
            /\ ComposedElapsed = 100 /\ codec.sequence = 0 /\ codec.machineID = 127)
          => codec.id = 1677721727 /\ codec.err = ErrNone
    /\ (codec.op = "Decompose" /\ CodecSf.bitsTime = defaultBitsTime
            /\ CodecSf.bitsSequence = defaultBitsSequence
            /\ CodecSf.bitsMachine = defaultBitsMachine /\ codec.id = 1677721727)
          => codec.parts = [id |-> 1677721727, time |-> 100, sequence |-> 0, machine |-> 127]

\* Compose on the default layout has returned 1677721727
C8_Witness ==
    /\ Composed /\ codec.err = ErrNone
    /\ CodecSf.bitsTime = defaultBitsTime
    /\ ComposedElapsed = 100 /\ codec.sequence = 0 /\ codec.machineID = 127
    /\ codec.id = 1677721727

\* the time argument is before the generator's epoch
BeforeEpoch == codec.t < CodecSf.startTime * CodecSf.timeUnit

\* C9 as stated: Compose fails with StartTimeAhead when the time precedes the epoch,
\* with OverTimeLimit when the elapsed time is at least 2^bitsTime, with
\* InvalidSequence when the sequence number is out of range, with InvalidMachineID
\* when the machine ID is out of range (one of the errors whose condition holds when
\* several do), and succeeds when none of the conditions holds.
C9_ComposeErrorsAsStated ==
    Composed =>
        LET over == ComposedElapsed >= 0 /\ ~UnderTimeLimit(CodecSf, ComposedElapsed)
        IN /\ (BeforeEpoch \/ over \/ ~SequenceInRange \/ ~MachineInRange)
                 => codec.err # ErrNone
           /\ codec.err = ErrStartTimeAhead => BeforeEpoch
           /\ codec.err = ErrOverTimeLimit => over
           /\ codec.err = ErrInvalidSequence => ~SequenceInRange
           /\ codec.err = ErrInvalidMachineID => ~MachineInRange
           /\ ~(BeforeEpoch \/ over \/ ~SequenceInRange \/ ~MachineInRange)
                 => codec.err = ErrNone

\* C9 as amended: the elapsed time is the time argument in whole time units (the
\* division truncating towards zero) minus startTime.  Compose fails with
\* StartTimeAhead when it is negative; otherwise with OverTimeLimit when it is at
\* least 2^bitsTime; otherwise with InvalidSequence when the sequence number is out
\* of range; otherwise with InvalidMachineID when the machine ID is out of range;
\* and it succeeds otherwise.
C9_ComposeErrors ==
    Composed =>
        codec.err =
            IF ComposedElapsed < 0 THEN ErrStartTimeAhead
            ELSE IF ~UnderTimeLimit(CodecSf, ComposedElapsed) THEN ErrOverTimeLimit
            ELSE IF ~SequenceInRange THEN ErrInvalidSequence
            ELSE IF ~MachineInRange THEN ErrInvalidMachineID
            ELSE ErrNone

\* a time less than one time unit before the epoch is accepted: its elapsed time is 0
C9_Witness ==
    /\ Composed /\ BeforeEpoch
    /\ ComposedElapsed = 0
    /\ codec.err = ErrNone

\* C10: Compose (succeeding or failing), Decompose and ToTime leave every
\* generator's elapsedTime and sequence as they are, wherever the call falls among
\* the steps of NextID calls.
C10_CodecFrame ==
    [][(codec' # codec /\ codec'.op \in {"Compose", "Decompose", "ToTime"})
          => \A g \in DOMAIN sf :
                /\ sf'[g].elapsedTime = sf[g].elapsedTime
                /\ sf'[g].sequence = sf[g].sequence]_vars

\* a failing Compose has been made while a NextID call is between its transition
\* and its identifier
C10_Witness ==
    /\ Composed /\ codec.err # ErrNone
    /\ \E p \in Procs : pc[p] = "toID" /\ sf[gen[p]].elapsedTime > 0

\* C11: on a newly constructed generator, 2^bitsSequence + 1 calls of the
\* explicit-timestamp variant with one timestamp of elapsed value e >= 1 return
\* strictly increasing identifiers: the k-th of the first 2^bitsSequence has time
\* part e and sequence part k - 1, the last has time part e + 1 and sequence part 0
\* (as long as the time part is below the time limit).
C11_SameTimestamp ==
    \A p \in Procs :
        LET g == gen[p]
            e == currentElapsedTime(sf[g], replay.t)
            n == Pow2(sf[g].bitsSequence)
        IN (Holding(p) /\ e >= 1) =>
              /\ (calls <= n /\ e < TimeLimit(g))
                    => /\ Succeeded(ret[p])
                       /\ timePart(sf[g], ret[p].id) = e
                       /\ sequencePart(sf[g], ret[p].id) = calls - 1
              /\ (calls = n + 1 /\ e + 1 < TimeLimit(g))
                    => /\ Succeeded(ret[p])
                       /\ timePart(sf[g], ret[p].id) = e + 1
                       /\ sequencePart(sf[g], ret[p].id) = 0
              /\ (Succeeded(ret[p]) /\ watched # Nobody /\ Succeeded(watched))
                    => ret[p].id > watched.id

\* the call after the 2^bitsSequence-th has its identifier, in the next time unit,
\* the identifier before it having been returned
C11_Witness ==
    \E p \in Procs :
        /\ Holding(p) /\ Succeeded(ret[p])
        /\ calls = Pow2(sf[gen[p]].bitsSequence) + 1
        /\ currentElapsedTime(sf[gen[p]], replay.t) >= 1
        /\ timePart(sf[gen[p]], ret[p].id) = currentElapsedTime(sf[gen[p]], replay.t) + 1
        /\ sequencePart(sf[gen[p]], ret[p].id) = 0
        /\ Succeeded(watched)
        /\ sequencePart(sf[gen[p]], watched.id) = maskSequence(sf[gen[p]])

\* C12: two generators with the same epoch, layout and machine ID, each used by one
\* caller of the explicit-timestamp variant and both supplied the same timestamps,
\* return the same results call by call: the result a caller holds or has got in a
\* round equals the result the other caller got in that round.
C12_Reproducible ==
    /\ \A p \in Procs, q \in DOMAIN replay.out :
          (Holding(p) \/ Returning(p)) => ret[p] = replay.out[q]
    /\ \A p, q \in DOMAIN replay.out : replay.out[p] = replay.out[q]

\* in a later round both callers hold the same identifier, issued after a wrap of
\* the sequence
C12_Witness ==
    /\ DOMAIN replay.out = Procs
    /\ calls = MaxCalls
    /\ \A p \in Procs : Succeeded(replay.out[p]) /\ replay.out[p].id = replay.out[1].id
    /\ timePart(sf[1], replay.out[1].id) > currentElapsedTime(sf[1], replay.t)

\* the number of bits of an identifier below its sign bit: 63 in every generator that
\* New returns
BitsID(s) == s.bitsTime + s.bitsSequence + s.bitsMachine

\* C13: every identifier successfully returned by NextID, by the explicit-timestamp
\* variant or by Compose is at least 0 and below 2^(bitsTime + bitsSequence +
\* bitsMachine), so that its sign bit, the bit above these, is zero.
C13_SignBitZero ==
    /\ \A p \in Procs :
          ((Holding(p) \/ Returning(p)) /\ Succeeded(ret[p]))
             => (ret[p].id >= 0 /\ ret[p].id < Pow2(BitsID(sf[gen[p]])))
    /\ (Composed /\ Succeeded(codec))
          => (codec.id >= 0 /\ codec.id < Pow2(BitsID(CodecSf)))

\* a call returns the largest identifier of the layout, which Compose has produced too
C13_Witness ==
    /\ Composed /\ Succeeded(codec) /\ codec.id = Pow2(BitsID(CodecSf)) - 1
    /\ \E p \in Procs :
          /\ Holding(p) /\ Succeeded(ret[p])
          /\ ret[p].id = Pow2(BitsID(sf[gen[p]])) - 1

\* C14: in every reachable state, the one right after construction included, each
\* generator's sequence counter is in [0, 2^bitsSequence - 1]; the sequence part of an
\* identifier being issued is the counter's value, hence in that range too.
C14_SequenceInRange ==
    /\ \A g \in DOMAIN sf :
          sf[g].sequence >= 0 /\ sf[g].sequence <= Pow2(sf[g].bitsSequence) - 1
    /\ \A p \in Procs :
          (Holding(p) /\ Succeeded(ret[p]))
             => /\ sequencePart(sf[gen[p]], ret[p].id) = sf[gen[p]].sequence
                /\ sequencePart(sf[gen[p]], ret[p].id) >= 0
                /\ sequencePart(sf[gen[p]], ret[p].id) <= Pow2(sf[gen[p]].bitsSequence) - 1

\* the last call of the budget issues an identifier with the largest sequence number,
\* the counter having started there and come back to it
C14_Witness ==
    \E p \in Procs :
        /\ Holding(p) /\ Succeeded(ret[p]) /\ calls = MaxCalls
        /\ sf[gen[p]].sequence = Pow2(sf[gen[p]].bitsSequence) - 1
        /\ sequencePart(sf[gen[p]], ret[p].id) = Pow2(sf[gen[p]].bitsSequence) - 1

\* the clock's elapsed time since generator g's epoch, in time units
ClockElapsed(g) == currentElapsedTime(sf[g], now.t)

\* C15 as stated: on a clock that does not go backwards during the call, the time part
\* of an identifier that NextID returns is at most the clock's elapsed time at the
\* moment of return.
C15_NotAheadOfClockAsStated ==
    \A p \in Procs :
        ((Holding(p) \/ Returning(p)) /\ Succeeded(ret[p]))
            => timePart(sf[gen[p]], ret[p].id) <= ClockElapsed(gen[p])

\* C15: on a clock that has not gone backwards since the generator was constructed,
\* the time part of an identifier that NextID returns, after a compensating sleep or
\* without one, is at most the clock's elapsed time at the moment of return.
C15_NotAheadOfClock ==
    \A p \in Procs :
        (~now.back /\ (Holding(p) \/ Returning(p)) /\ Succeeded(ret[p]))
            => timePart(sf[gen[p]], ret[p].id) <= ClockElapsed(gen[p])

\* on a clock that never went backwards, a call returns the first identifier of a time
\* unit at the very start of that unit, the identifier before it having had the largest
\* sequence number of the unit before
C15_Witness ==
    \E p \in Procs :
        /\ ~now.back /\ Holding(p) /\ Succeeded(ret[p])
        /\ sequencePart(sf[gen[p]], ret[p].id) = 0
        /\ timePart(sf[gen[p]], ret[p].id) = ClockElapsed(gen[p])
        /\ Rem(now.t, sf[gen[p]].timeUnit) = 0
        /\ Succeeded(watched)
        /\ sequencePart(sf[gen[p]], watched.id) = maskSequence(sf[gen[p]])
        /\ timePart(sf[gen[p]], watched.id) = ClockElapsed(gen[p]) - 1

C17_PerTimeValue ==
    \A g \in DOMAIN sf : tally.count <= Pow2(sf[g].bitsSequence)

\* 2^bitsSequence identifiers with time part T have been issued, and the next call,
\* made while the clock still reads T, is about to return the first identifier of
\* time value T + 1
C17_Witness ==
    \E p \in Procs :
        /\ tally.time >= 1 /\ tally.count = Pow2(sf[gen[p]].bitsSequence)
        /\ Holding(p) /\ Succeeded(ret[p])
        /\ timePart(sf[gen[p]], ret[p].id) = tally.time + 1
        /\ sequencePart(sf[gen[p]], ret[p].id) = 0
        /\ Succeeded(watched) /\ timePart(sf[gen[p]], watched.id) = tally.time
        /\ sequencePart(sf[gen[p]], watched.id) = maskSequence(sf[gen[p]])

\* C18: the first identifier a newly constructed generator issues has sequence part
\* 0 and the time part that the first call's transition left in elapsedTime; when the
\* clock's elapsed time c is at least 1 as that transition reads it, the transition
\* sets elapsedTime to exactly c and the sequence to 0 and does not sleep.
C18_FirstIdentifier ==
    /\ [](\A p \in Procs :
            (Holding(p) /\ calls = 1 /\ Succeeded(ret[p]))
               => /\ sequencePart(sf[gen[p]], ret[p].id) = 0
                  /\ timePart(sf[gen[p]], ret[p].id) = sf[gen[p]].elapsedTime)
    /\ [][\A p \in Procs :
            (calls = 1 /\ pc[p] = "locked" /\ pc'[p] # "locked"
                /\ ClockElapsed(gen[p]) >= 1)
               => /\ sf'[gen[p]].elapsedTime = ClockElapsed(gen[p])
                  /\ sf'[gen[p]].sequence = 0
                  /\ pc'[p] = "toID"]_vars
    /\ [][\A p \in Procs :
            (calls = 1 /\ pc[p] = "toID") => sf'[gen[p]] = sf[gen[p]]]_vars

\* the first call is about to return an identifier with sequence part 0 and the
\* clock's elapsed time, which is at least 1, as its time part
C18_Witness ==
    \E p \in Procs :
        /\ Holding(p) /\ calls = 1 /\ Succeeded(ret[p])
        /\ ClockElapsed(gen[p]) >= 1
        /\ timePart(sf[gen[p]], ret[p].id) = ClockElapsed(gen[p])
        /\ sequencePart(sf[gen[p]], ret[p].id) = 0

\* the fields of a generator that New sets and nothing is to change
Settled(s) ==
    <<s.bitsTime, s.bitsSequence, s.bitsMachine, s.timeUnit, s.startTime, s.machine>>

\* C19: no step of any operation on a constructed generator (NextID, the
\* explicit-timestamp variant, Compose, Decompose, ToTime) changes its bit widths, its
\* time unit, its epoch or its machine ID, and the machine part of every identifier
\* NextID issues is the generator's machine ID.
C19_SettingsFixed ==
    /\ [][\A g \in DOMAIN sf : Settled(sf'[g]) = Settled(sf[g])]_vars
    /\ [](\A p \in Procs :
            ((Holding(p) \/ Returning(p)) /\ Succeeded(ret[p]))
               => machinePart(sf[gen[p]], ret[p].id) = sf[gen[p]].machine)

\* the last call of the budget issues an identifier carrying the generator's machine
\* ID, which is not 0, after calls of the codec
C19_Witness ==
    \E p \in Procs :
        /\ Holding(p) /\ Succeeded(ret[p]) /\ calls = MaxCalls /\ codec # NoCodec
        /\ sf[gen[p]].machine > 0
        /\ machinePart(sf[gen[p]], ret[p].id) = sf[gen[p]].machine
        /\ Settled(sf[gen[p]]) = Settled(ModelSonyflake(Pow2(ModelBitsMachine) - 1))

\* New has been called and has returned a generator
Constructed == built.op = "New" /\ built.err = ErrNone

\* C20: every generator that New returns without error has bit widths that sum to
\* 63, bitsTime >= 32, bitsSequence and bitsMachine in [0, 30], a time unit of 1 ms or
\* more and a machine ID in [0, 2^bitsMachine).
C20_Constructed ==
    Constructed =>
        /\ built.sf # NilSonyflake
        /\ built.sf.bitsTime + built.sf.bitsSequence + built.sf.bitsMachine = 63
        /\ built.sf.bitsTime >= 32
        /\ built.sf.bitsSequence >= 0 /\ built.sf.bitsSequence <= 30
        /\ built.sf.bitsMachine >= 0 /\ built.sf.bitsMachine <= 30
        /\ built.sf.timeUnit >= Millisecond
        /\ built.sf.machine >= 0 /\ built.sf.machine < Pow2(built.sf.bitsMachine)

\* New returns a generator at the edge of every range: 32 bits of time, 30 bits of
\* machine ID, a time unit of 1 ms and the largest machine ID
C20_Witness ==
    /\ Constructed
    /\ built.sf.bitsTime = 32 /\ built.sf.bitsMachine = 30
    /\ built.sf.timeUnit = Millisecond
    /\ built.sf.machine = Pow2(30) - 1

\* New has been called
Built == built.op = "New"

\* New returned the error err and the nil generator
FailedWith(err) == built.err = err /\ built.sf = NilSonyflake

\* the fields of the Settings New was called with, each against its own range
BitsSequenceOutside == built.st.BitsSequence < 0 \/ built.st.BitsSequence > 30

BitsMachineIDOutside == built.st.BitsMachineID < 0 \/ built.st.BitsMachineID > 30

TimeUnitTooShort == built.st.TimeUnit # 0 /\ built.st.TimeUnit < Millisecond

\* C21 as stated: New fails with InvalidBitsSequence when BitsSequence is outside
\* [0, 30], with InvalidBitsMachineID when BitsMachineID is outside [0, 30] and with
\* InvalidTimeUnit when TimeUnit is not 0 and below 1 ms, and returns no generator.
C21_FieldErrorsAsStated ==
    Built =>
        /\ BitsSequenceOutside => FailedWith(ErrInvalidBitsSequence)
        /\ BitsMachineIDOutside => FailedWith(ErrInvalidBitsMachineID)
        /\ TimeUnitTooShort => FailedWith(ErrInvalidTimeUnit)

\* C21: New returns no generator when one of the three fields is out of range, and
\* the error is that of the first check to fail: InvalidBitsSequence when BitsSequence
\* is outside [0, 30]; InvalidBitsMachineID when BitsSequence is inside and
\* BitsMachineID is outside [0, 30]; InvalidTimeUnit when both widths are inside and
\* TimeUnit is not 0 and below 1 ms.
C21_FieldErrors ==
    Built =>
        /\ (BitsSequenceOutside \/ BitsMachineIDOutside \/ TimeUnitTooShort)
              => (built.sf = NilSonyflake /\ built.err # ErrNone)
        /\ BitsSequenceOutside => FailedWith(ErrInvalidBitsSequence)
        /\ (~BitsSequenceOutside /\ BitsMachineIDOutside)
              => FailedWith(ErrInvalidBitsMachineID)
        /\ (~BitsSequenceOutside /\ ~BitsMachineIDOutside /\ TimeUnitTooShort)
              => FailedWith(ErrInvalidTimeUnit)

\* New refuses a time unit one nanosecond short of 1 ms, the widths being in range and
\* the start time ahead of the clock
C21_Witness ==
    /\ Built /\ FailedWith(ErrInvalidTimeUnit)
    /\ ~BitsSequenceOutside /\ ~BitsMachineIDOutside
    /\ built.st.TimeUnit = Millisecond - 1
    /\ ~built.st.StartTime.zero /\ built.st.StartTime.ns > built.t

\* the start time New was called with is later than the clock reading of the call
StartTimeLater == ~built.st.StartTime.zero /\ built.st.StartTime.ns > built.t

\* the bit widths, the time unit and the start time are each valid
FieldsValid ==
    /\ ~BitsSequenceOutside /\ ~BitsMachineIDOutside
    /\ ~TimeUnitTooShort /\ ~StartTimeLater

\* 63 - bitsSequence - bitsMachine, a width of 0 replaced by its default, 8 or 16
DerivedBitsTime ==
    63 - (IF built.st.BitsSequence = 0 THEN 8 ELSE built.st.BitsSequence)
       - (IF built.st.BitsMachineID = 0 THEN 16 ELSE built.st.BitsMachineID)

\* C22: when the bit widths, the time unit and the start time are each valid, New
\* fails with InvalidBitsTime if and only if the derived time width, computed after
\* a zero width has been replaced by its default, is below 32.
C22_InvalidBitsTime ==
    (Built /\ FieldsValid)
        => (FailedWith(ErrInvalidBitsTime) <=> DerivedBitsTime < 32)

\* New refuses a derived time width of 31: BitsSequence 0, replaced by 8, with
\* BitsMachineID 24
C22_Witness ==
    /\ Built /\ FieldsValid /\ FailedWith(ErrInvalidBitsTime)
    /\ built.st.BitsSequence = 0 /\ built.st.BitsMachineID = 24
    /\ DerivedBitsTime = 31

\* the sum of the two widths as supplied in Settings, and with a width of 0 replaced
\* by its default
SuppliedBits == built.st.BitsSequence + built.st.BitsMachineID

EffectiveBits ==
    (IF built.st.BitsSequence = 0 THEN 8 ELSE built.st.BitsSequence)
        + (IF built.st.BitsMachineID = 0 THEN 16 ELSE built.st.BitsMachineID)

\* C23 as stated: when every field is valid by itself, New returns the error for the
\* bit widths exactly when BitsSequence + BitsMachineID, as supplied, is 32 or more.
C23_SuppliedSumAsStated ==
    (Built /\ FieldsValid)
        => (built.err = ErrInvalidBitsTime <=> SuppliedBits >= 32)

\* C23: when every field is valid by itself, New returns the error for the bit
\* widths exactly when the sum of the two widths, a width of 0 counted as its default
\* (8 or 16), is 32 or more; this is so whenever the sum as supplied is 32 or more.
C23_EffectiveSum ==
    (Built /\ FieldsValid)
        => /\ built.err = ErrInvalidBitsTime <=> EffectiveBits >= 32
           /\ SuppliedBits >= 32 => built.err = ErrInvalidBitsTime

\* New refuses BitsSequence 24 with BitsMachineID 0: 24 as supplied, 40 with the
\* default machine width
C23_Witness ==
    /\ Built /\ FieldsValid /\ FailedWith(ErrInvalidBitsTime)
    /\ built.st.BitsSequence = 24 /\ built.st.BitsMachineID = 0
    /\ SuppliedBits < 32 /\ EffectiveBits >= 32

\* C24: when the checks of the two bit widths and of the time unit pass, New fails
\* with StartTimeAhead, returning no generator, if and only if the start time
\* requested is later than the clock reading at construction.
C24_StartTimeAhead ==
    (Built /\ ~BitsSequenceOutside /\ ~BitsMachineIDOutside /\ ~TimeUnitTooShort)
        => /\ built.err = ErrStartTimeAhead <=> StartTimeLater
           /\ built.err = ErrStartTimeAhead => built.sf = NilSonyflake

\* New refuses a start time one nanosecond after the clock reading, whatever the
\* later checks would have said: the derived time width is below 32
C24_Witness ==
    /\ Built /\ FailedWith(ErrStartTimeAhead)
    /\ ~BitsSequenceOutside /\ ~BitsMachineIDOutside /\ ~TimeUnitTooShort
    /\ ~built.st.StartTime.zero /\ built.st.StartTime.ns = built.t + 1
    /\ DerivedBitsTime < 32

\* the epoch of generator s as an instant: the start of its time unit number 0
EpochOf(s) == s.startTime * s.timeUnit

\* C25: for every generator that New returns without error, the epoch strictly
\* precedes the instant of construction, the clock reading of the call.
C25_EpochPrecedes ==
    Constructed => EpochOf(built.sf) < built.t

\* New reaches the resolution of the machine ID: every check before it passes
Resolving == FieldsValid /\ DerivedBitsTime >= 32

\* C26: when New calls the caller's MachineID function and it returns an error, New
\* returns that very error and no generator; and whatever its arguments, New returns
\* either a generator and no error, or an error and no generator.
C26_MachineIDError ==
    Built =>
        /\ (Resolving /\ ~built.st.MachineID.nil /\ built.st.MachineID.err # ErrNone)
              => (built.err = built.st.MachineID.err /\ built.sf = NilSonyflake)
        /\ \/ built.sf # NilSonyflake /\ built.err = ErrNone
           \/ built.sf = NilSonyflake /\ built.err # ErrNone

\* the caller's MachineID function fails and New returns its error, which is none
\* of New's own, and no generator
C26_Witness ==
    /\ Built /\ Resolving
    /\ ~built.st.MachineID.nil /\ built.st.MachineID.err = ErrMachineID
    /\ built.err = ErrMachineID /\ built.sf = NilSonyflake

\* the results of the machine ID's resolution: those of the caller's function, or of
\* the private address when there is none
Resolved == IF built.st.MachineID.nil THEN built.ip ELSE built.st.MachineID

\* the generator's machine width: BitsMachineID, 16 in place of 0
MachineBits == IF built.st.BitsMachineID = 0 THEN 16 ELSE built.st.BitsMachineID

MachineOutside == Resolved.id < 0 \/ Resolved.id >= Pow2(MachineBits)

\* C27: when the machine ID resolved at construction, by the caller's function or
\* from the private address, is negative or at least 2^bitsMachine, New fails with
\* InvalidMachineID and returns no generator.
C27_InvalidMachineID ==
    (Built /\ Resolving /\ Resolved.err = ErrNone /\ MachineOutside)
        => FailedWith(ErrInvalidMachineID)

\* New refuses the machine ID 65535 taken from the private address, for a machine
\* width below 16 bits
C27_Witness ==
    /\ Built /\ Resolving /\ FailedWith(ErrInvalidMachineID)
    /\ built.st.MachineID.nil /\ built.ip.err = ErrNone /\ built.ip.id = 65535
    /\ MachineBits < 16 /\ built.st.CheckMachineID.nil

\* C28: when a CheckMachineID function is supplied and returns false for the machine
\* ID resolved, New fails with InvalidMachineID; when none is supplied, New accepts
\* every resolved machine ID in [0, 2^bitsMachine) and returns a generator with it.
C28_CheckMachineID ==
    (Built /\ Resolving /\ Resolved.err = ErrNone)
        => /\ (~built.st.CheckMachineID.nil
                  /\ Resolved.id \notin built.st.CheckMachineID.accepts)
                 => FailedWith(ErrInvalidMachineID)
           /\ (built.st.CheckMachineID.nil /\ ~MachineOutside)
                 => (Constructed /\ built.sf.machine = Resolved.id)

\* New refuses a machine ID that is in range and that the CheckMachineID function
\* supplied, which accepts other IDs, returns false for
C28_Witness ==
    /\ Built /\ Resolving /\ Resolved.err = ErrNone /\ ~MachineOutside
    /\ ~built.st.CheckMachineID.nil
    /\ built.st.CheckMachineID.accepts # {}
    /\ Resolved.id \notin built.st.CheckMachineID.accepts
    /\ FailedWith(ErrInvalidMachineID)

\* C29: every transition of a generator's state made by an identifier-generating
\* call is of one of two kinds: elapsedTime strictly increases and sequence becomes
\* 0, or elapsedTime is unchanged and sequence increases by exactly 1; hence sequence
\* returns to 0 only together with an advance of elapsedTime.
C29_TwoKinds ==
    [][\A g \in DOMAIN sf :
          sf'[g] # sf[g]
             => /\ \/ /\ sf'[g].elapsedTime > sf[g].elapsedTime
                      /\ sf'[g].sequence = 0
                   \/ /\ sf'[g].elapsedTime = sf[g].elapsedTime
                      /\ sf'[g].sequence = sf[g].sequence + 1
                /\ sf'[g].sequence = 0 => sf'[g].elapsedTime > sf[g].elapsedTime]_vars

\* a call has just wrapped the sequence to 0 and advanced elapsedTime, after a call
\* that issued the largest sequence number of the time unit before
C29_Witness ==
    \E p \in Procs :
        /\ pc[p] = "sleep" /\ sf[gen[p]].sequence = 0 /\ sf[gen[p]].elapsedTime >= 2
        /\ Succeeded(watched)
        /\ sequencePart(sf[gen[p]], watched.id) = maskSequence(sf[gen[p]])
        /\ timePart(sf[gen[p]], watched.id) = sf[gen[p]].elapsedTime - 1

\* C30: when a call's transition finds that the clock has not moved past elapsedTime
\* and the sequence counter is at its maximum, elapsedTime advances by exactly 1 and
\* sequence becomes 0; the fields stay so until the identifier is computed, and the
\* identifier issued has the time part elapsedTime, the sequence part 0 and the
\* generator's machine ID, a (time, sequence) pair no earlier identifier has.
C30_Exhausted ==
    /\ [][\A p \in Procs, t \in Clock :
            (/\ pc[p] = "locked"
             /\ sf[gen[p]].sequence = maskSequence(sf[gen[p]])
             /\ currentElapsedTime(sf[gen[p]], t) <= sf[gen[p]].elapsedTime
             /\ Transition(p, t) \/ nextIDInternal(p, t))
               => /\ sf'[gen[p]].elapsedTime = sf[gen[p]].elapsedTime + 1
                  /\ sf'[gen[p]].sequence = 0
                  /\ pc'[p] \in {"sleep", "sleeping"}]_vars
    /\ [][\A p \in Procs :
            pc[p] \in {"sleep", "sleeping", "toID"} => sf'[gen[p]] = sf[gen[p]]]_vars
    /\ [](\A p \in Procs :
            (Holding(p) /\ Succeeded(ret[p]))
               => /\ timePart(sf[gen[p]], ret[p].id) = sf[gen[p]].elapsedTime
                  /\ sequencePart(sf[gen[p]], ret[p].id) = sf[gen[p]].sequence
                  /\ machinePart(sf[gen[p]], ret[p].id) = sf[gen[p]].machine
                  /\ (watched # Nobody /\ Succeeded(watched))
                        => <<timePart(sf[gen[p]], watched.id),
                             sequencePart(sf[gen[p]], watched.id)>>
                              # <<sf[gen[p]].elapsedTime, sf[gen[p]].sequence>>)

\* a call that found the clock behind elapsedTime and the sequence at its maximum is
\* about to return the first identifier of the next time value
C30_Witness ==
    \E p \in Procs :
        /\ Holding(p) /\ Succeeded(ret[p]) /\ sf[gen[p]].sequence = 0
        /\ Succeeded(watched) /\ watched.p # p
        /\ sequencePart(sf[gen[p]], watched.id) = maskSequence(sf[gen[p]])
        /\ timePart(sf[gen[p]], ret[p].id) = timePart(sf[gen[p]], watched.id) + 1
        /\ machinePart(sf[gen[p]], ret[p].id) = sf[gen[p]].machine

\* C31: in no step does a generator's elapsedTime decrease: not in a call that fails
\* with OverTimeLimit, not in a call made while the clock stands still, and not in a
\* call made after the clock has been set back.
C31_NeverDecreases ==
    [][\A g \in DOMAIN sf : sf'[g].elapsedTime >= sf[g].elapsedTime]_vars

\* after the clock was set back to before the generator's time, a call has failed with
\* OverTimeLimit, the generator's time still at or beyond the limit
C31_Witness ==
    \E p \in Procs :
        /\ now.back /\ Holding(p) /\ ret[p].err = ErrOverTimeLimit
        /\ ClockElapsed(gen[p]) < sf[gen[p]].elapsedTime
        /\ sf[gen[p]].elapsedTime >= TimeLimit(gen[p])

\* p is between sf.mutex.Lock() and the deferred Unlock()
Inside(p) == pc[p] \in {"locked", "sleep", "sleeping", "toID", "unlock"}

\* C32: at most one caller at a time is inside a generator's state transition, and it
\* holds the lock; the lock is held for the whole compensating sleep: while a caller
\* sleeps, no other caller of the same generator is inside, elapsedTime and sequence
\* are not changed, and no other caller obtains an identifier.
C32_MutualExclusion ==
    /\ [](\A p \in Procs :
            Inside(p) => /\ mutex[gen[p]] = p
                         /\ \A q \in Procs \ {p} : gen[q] = gen[p] => ~Inside(q))
    /\ [][\A p \in Procs :
            pc[p] \in {"sleep", "sleeping"}
               => /\ sf'[gen[p]] = sf[gen[p]]
                  /\ mutex'[gen[p]] = p
                  /\ \A q \in Procs \ {p} :
                        gen[q] = gen[p] => /\ ~Inside(q)'
                                           /\ ret'[q] # ret[q] => ret'[q] = NoRet]_vars

\* a caller sleeps with time left to sleep while another caller of the same generator
\* waits for the lock
C32_Witness ==
    \E p \in Procs, q \in Procs :
        /\ p # q /\ gen[q] = gen[p]
        /\ pc[p] = "sleeping" /\ sleepLeft[p] > 0
        /\ pc[q] = "idle" /\ calls < MaxCalls
        /\ mutex[gen[p]] = p

\* C33: provided the clock keeps advancing and the lock is granted fairly, every call
\* of NextID eventually returns, with an identifier or with OverTimeLimit; a call that
\* is about to return OverTimeLimit releases the lock, and a caller waiting behind it
\* gets the lock.
C33_Terminates ==
    /\ \A p \in Procs :
          (pc[p] = "waiting")
             ~> (Returning(p) /\ ret[p].err \in {ErrNone, ErrOverTimeLimit})
    /\ \A p \in Procs :
          (Holding(p) /\ ret[p].err = ErrOverTimeLimit) ~> (mutex[gen[p]] # p)
    /\ \A p \in Procs, q \in Procs :
          (Holding(p) /\ ret[p].err = ErrOverTimeLimit /\ pc[q] = "waiting")
             ~> Inside(q)

\* a call is about to return OverTimeLimit while another caller waits for the lock
C33_Witness ==
    \E p \in Procs, q \in Procs :
        /\ Holding(p) /\ ret[p].err = ErrOverTimeLimit
        /\ pc[q] = "waiting" /\ gen[q] = gen[p]

\* C34: the explicit-timestamp variant and NextID perform the same state transition.
\* From every generator state in which a call has taken the lock, and for every
\* timestamp t, the fields and the result that nextIDInternal produces from t are those
\* that NextID's transition produces from a clock reading of t; every step either of
\* them takes from the lock is that transition; and the result returned is toID of the
\* fields it left.
C34_SameTransition ==
    /\ [](\A p \in Procs :
            pc[p] = "locked"
               => \A t \in Clock :
                     LET s == sf[gen[p]]
                         cur == currentElapsedTime(s, t)
                     IN /\ nextIDInternalState(s, cur) = nextState(s, cur)
                        /\ toID(nextIDInternalState(s, cur)) = toID(nextState(s, cur)))
    /\ [][\A p \in Procs :
            (pc[p] = "locked" /\ pc'[p] # "locked")
               => \E t \in Clock :
                     LET cur == currentElapsedTime(sf[gen[p]], t)
                     IN /\ sf'[gen[p]] = nextState(sf[gen[p]], cur)
                        /\ sf'[gen[p]] = nextIDInternalState(sf[gen[p]], cur)]_vars
    /\ [](\A p \in Procs : Holding(p) => ret[p] = toID(sf[gen[p]]))

\* a call of either kind is about to make the transition in which the sequence wraps,
\* from a generator that has issued an identifier with the largest sequence number
C34_Witness ==
    \E p \in Procs :
        /\ pc[p] = "locked"
        /\ sf[gen[p]].sequence = maskSequence(sf[gen[p]])
        /\ sf[gen[p]].elapsedTime >= 1
        /\ watched # Nobody /\ Succeeded(watched)
        /\ sequencePart(sf[gen[p]], watched.id) = maskSequence(sf[gen[p]])
        /\ timePart(sf[gen[p]], watched.id) = sf[gen[p]].elapsedTime

\* C35: elapsedTime is never negative and every identifier issued by an ID-generating
\* call has a time part of at least 1: a first call made while the clock, or the
\* timestamp supplied, is within the epoch's own time unit or before the epoch moves
\* the generator to time 1 with sequence 0 and sleeps, and then issues an identifier
\* with time part 1 rather than time part 0 or an error.
C35_TimePartPositive ==
    /\ [](\A g \in DOMAIN sf : sf[g].elapsedTime >= 0)
    /\ [](\A p \in Procs :
            Holding(p) => /\ Succeeded(ret[p]) => timePart(sf[gen[p]], ret[p].id) >= 1
                          /\ sf[gen[p]].elapsedTime = 1
                                => /\ Succeeded(ret[p])
                                   /\ timePart(sf[gen[p]], ret[p].id) = 1)
    /\ [][\A p \in Procs, t \in Clock :
            (/\ pc[p] = "locked"
             /\ sf[gen[p]].elapsedTime = 0
             /\ currentElapsedTime(sf[gen[p]], t) <= 0
             /\ Transition(p, t) \/ nextIDInternal(p, t))
               => /\ sf'[gen[p]].elapsedTime = 1
                  /\ sf'[gen[p]].sequence = 0
                  /\ pc'[p] \in {"sleep", "sleeping"}
                  /\ pc'[p] = "sleeping" => sleepLeft'[p] > 0]_vars

\* the first call, made with the clock before the epoch, has moved the generator to
\* time 1 and is about to sleep
C35_Witness ==
    \E p \in Procs :
        /\ pc[p] = "sleep" /\ calls = 1 /\ current[p] < 0
        /\ sf[gen[p]].elapsedTime = 1 /\ sf[gen[p]].sequence = 0

\* the parts Decompose returned are within the layout's ranges
PartsInRange ==
    codec.op = "Decompose"
       => LET s == sf[codec.g]
          IN /\ codec.parts.id = codec.id
             /\ codec.parts.sequence \in 0..(Pow2(s.bitsSequence) - 1)
             /\ codec.parts.machine \in 0..(Pow2(s.bitsMachine) - 1)
             /\ codec.parts.time >= 0
             /\ ~GeShl1(codec.parts.time, s.bitsTime)

\* the time of the identifier decomposed, (startTime + time) * timeUnit nanoseconds,
\* is not changed by int64 arithmetic
TimeFitsInt64 ==
    LET s == sf[codec.g]
    IN ToTime(s, codec.id) = (s.startTime + timePart(s, codec.id)) * s.timeUnit

\* C36: Decompose is total and is the inverse of Compose: for every identifier from 0
\* to the largest of the layout, Decompose returns a sequence, a machine and a time
\* within their ranges, and Compose(ToTime(id), sequence, machine) succeeds and
\* returns id.
C36_Inverse ==
    /\ []PartsInRange
    /\ [][(codec.op = "Decompose" /\ codec'.op = "Compose")
             => codec'.err = ErrNone /\ codec'.id = codec.id]_vars

\* Decompose returns parts within their ranges for every identifier, and composing
\* them again gives the identifier back whenever its time in nanoseconds fits an int64
InverseWithinInt64 ==
    /\ []PartsInRange
    /\ [][(codec.op = "Decompose" /\ codec'.op = "Compose" /\ TimeFitsInt64)
             => codec'.err = ErrNone /\ codec'.id = codec.id]_vars

\* an identifier with the largest time part of its layout was composed again to itself
InverseReached ==
    /\ codec.op = "Compose" /\ codec.err = ErrNone
    /\ timePart(sf[codec.g], codec.id) = Pow2(sf[codec.g].bitsTime) - 1
    /\ ToTime(sf[codec.g], codec.id) = codec.t

\* C37: during New the CheckMachineID function is called at most once, and only after
\* the bit widths, the time unit, the start time and the derived time width have
\* passed their checks, the machine ID has been resolved without an error and it lies
\* in [0, 2^bitsMachine); its argument is that machine ID, never one out of range.
C37_CheckedOnce ==
    Built => /\ Len(built.checked) <= 1
             /\ Len(built.checked) = 1
                   => /\ ~built.st.CheckMachineID.nil
                      /\ FieldsValid /\ DerivedBitsTime >= 32
                      /\ Resolved.err = ErrNone
                      /\ ~MachineOutside
                      /\ built.checked[1] = Resolved.id
                      /\ built.checked[1] \in 0..(Pow2(MachineBits) - 1)

\* CheckMachineID was called once, with the largest machine ID of the width, and
\* returned true
C37_Witness ==
    /\ Built /\ Constructed
    /\ Len(built.checked) = 1
    /\ built.checked[1] = Pow2(MachineBits) - 1
    /\ built.sf.machine = built.checked[1]

\* C38: when one caller calls NextID and another the explicit-timestamp variant on the
\* same generator, with any timestamps, the identifiers returned successfully are
\* pairwise distinct and increase in the order in which the calls acquire the lock: an
\* identifier computed under the lock is greater than every identifier of a call that
\* released the lock before, and differs from every identifier returned.
C38_MixedCallers ==
    /\ \A p \in Procs :
          (Succeeded(ret[p]) /\ watched # Nobody /\ Succeeded(watched))
             => /\ (Holding(p) \/ Returning(p)) => ret[p].id # watched.id
                /\ Holding(p) => ret[p].id > watched.id
    /\ \A p \in Procs, q \in Procs :
          (p # q /\ Succeeded(ret[p]) /\ Succeeded(ret[q]))
             => /\ (Holding(p) /\ Returning(q)) => ret[p].id > ret[q].id
                /\ (Returning(p) /\ Returning(q)) => ret[p].id # ret[q].id

\* three identifiers in lock order: one returned to the caller of the variant, one
\* that the caller of NextID is about to receive, and one that the variant has just
\* computed from a timestamp not after the generator's time
C38_Witness ==
    /\ watched.p = 2 /\ Succeeded(watched)
    /\ Returning(1) /\ Succeeded(ret[1])
    /\ Holding(2) /\ Succeeded(ret[2])
    /\ watched.id < ret[1].id /\ ret[1].id < ret[2].id
    /\ timePart(sf[1], ret[2].id) = timePart(sf[1], ret[1].id)
====
